---- MODULE Spec2Model ----
(***************************************************************************)
(* UTXOchat: message admission (Validator over the outpoint store), the    *)
(* peer session (inv / getdata / data), the network manager's broadcast    *)
(* and the blockchain handler that prunes spent outpoints.                 *)
(*                                                                         *)
(* One node is modelled.  Every connection runs as its own task            *)
(* (Manager.handleConnection -> Peer.Handle -> Peer.readMessages); the     *)
(* tasks interleave at every call that takes a lock of its own             *)
(* (MemoryDB.mu, Manager.peersMu, Peer.mutex) or that asks the Bitcoin     *)
(* node.  The ledger, the remote peers and the block source are the        *)
(* environment.  Connections are numbered in the order they are accepted.  *)
(***************************************************************************)
EXTENDS Integers, Sequences, FiniteSets, Bags, TLC

\* ------------------------------------------------------------- bounds
NumPeers     == 3      \* connections the node handles
NumOutpoints == 2      \* outpoints of the ledger
MaxFrames    == 2      \* frames read from all connections together
MaxInv       == 2      \* outpoints listed by one inv frame
MaxHeight    == 1      \* blocks mined while the node runs
MaxChain     == 3      \* blocks mined while the watcher is followed

MaxSeed      == 1      \* byte patterns of the contents given to the codec
MaxList      == 2      \* outpoints in one list given to RemoveOutpoints
MaxKnown     == 2      \* addresses in Config.KnownPeers
NumAddrs     == 2      \* remote addresses of each kind (inbound, known peers)
NumSenders   == 2      \* tasks that send to peers at the same time

\* ---------------------------------------------------------- constants
OutpointSize   == 36
SignatureSize  == 64
LengthSize     == 2
HeaderSize     == OutpointSize + SignatureSize + LengthSize
MaxPayloadSize == 65434
MaxMessageSize == HeaderSize + MaxPayloadSize

Peers     == 1..NumPeers
Outpoints == 1..NumOutpoints
\* Remote addresses: the ones inbound connections come from, and the listen
\* addresses of Config.KnownPeers, which the node dials.
InAddrs   == 1..NumAddrs
OutAddrs  == (NumAddrs + 1)..(2 * NumAddrs)
Addrs     == InAddrs \cup OutAddrs

\* A chat message as the admission path sees it: the outpoint it carries and
\* whether its signature verifies against the key of that outpoint's script.
Messages == [op : Outpoints, sig : {"good", "bad"}]

\* The lists an inv frame can carry (count 0 .. MaxInv).
InvLists == UNION {[1..k -> Outpoints] : k \in 0..MaxInv}

Senders   == 1..NumSenders

\* A task that has not called a send operation yet.
NoSend == [kind |-> "none", to |-> 0, step |-> "idle", err |-> "none",
           open |-> FALSE]

\* nil where raw message bytes are expected
NoMessage == [op |-> 0, sig |-> "nil"]

NoFrame == [type |-> "none"]
NoCall  == [replay |-> FALSE, own |-> FALSE, sig |-> FALSE, live |-> FALSE]

VARIABLES
    validator,        \* which Validator the manager was built with
    ledger,           \* Bitcoin node: outpoint -> "taproot" | "other" | "spent"
    blocks,           \* Bitcoin node: height -> outpoints spent in that block
    outpoints,        \* MemoryDB.outpoints
    messages,         \* cached raw message bytes by outpoint
    peers,            \* Manager.peers: the peers it holds (see peerMap)
    connected,        \* Peer.connected
    pc,               \* where each connection's task is
    cur,              \* the frame a session is handling (for inv: the part not yet read)
    result,           \* what the session's running ValidateMessage returned
    nframes,          \* frames read so far
    invTasks,         \* goroutines of broadcastToOtherPeers not yet run
    invSent,          \* inv frames written to peers' connections
    getTasks,         \* goroutines `go p.requestData(outpoint)` not yet run (a bag)
    dataSent,         \* data frames written to peers' connections
    wpc,              \* processBlocks: "idle" between ticks, "scan" in the loop
    lastKnownHeight,  \* processBlocks: lastKnownHeight
    wHeight,          \* processBlocks: height
    wTarget,          \* processBlocks: info.Blocks
    call,             \* history: what the running ValidateMessage call checked
    admitCount,       \* history: successful admissions of o since its last removal
    admittedBy,       \* history: the messages those admissions carried
    everPruned,       \* history: outpoints the watcher removed from the store
    ctxDone,          \* the context given to Manager.Start is cancelled
    quit,             \* Manager.quit is closed (and the listener with it)
    acceptPc,         \* acceptConnections: "accept" (in Accept) or "exited"
    stopPc,           \* Manager.Stop: "none", "lock", "loop", "blocked", "wait", "returned"
    stopTodo,         \* Manager.Stop: peers its loop has not visited yet
    stopPeer,         \* Manager.Stop: the peer whose Disconnect it is in (0: none)
    disconnects,      \* history: times Disconnect closed the socket of a peer
    codec,            \* a use of the message codec: its arguments and results
    notifications,    \* Handler.config.NotificationsEnabled
    wLast,            \* history: how the watcher's latest tick went
    processed,        \* history: heights for which handleNewBlock returned nil
    start,            \* Manager.Start: where it is, what it returned
    wire,             \* a use of the frame writers and readers: bytes and results
    db,               \* a use of MemoryDB by one caller: its latest calls
    conn,             \* what has been written to each p.conn, Write call by Write call
    sender,           \* tasks calling a send operation of a peer: where, what it returned
    mutex,            \* Peer.mutex of each peer: 0 free, else the task that holds it
    peerMap,          \* Manager.peers as the map it is: remote address -> peer (0: no entry)
    addr,             \* Peer.addr: the remote address of each connection (0: no connection yet)
    handler,          \* Handler: its Start, its cancel function, its Stop
    last              \* history: how the last frame of a session ended, when it
                      \*   ended by a framing error or by an ignored getdata

vars == <<validator, ledger, blocks, outpoints, messages, peers, connected, pc,
          cur, result, nframes, invTasks, invSent, getTasks, dataSent, wpc,
          lastKnownHeight, wHeight, wTarget, call, admitCount, admittedBy,
          everPruned, ctxDone, quit, acceptPc, stopPc, stopTodo, stopPeer,
          disconnects, codec, last, notifications, wLast, processed, start,
          wire, db, handler, addr, peerMap, mutex, sender, conn>>

netVars     == <<invTasks, invSent, getTasks, dataSent>>
watcherVars == <<wpc, lastKnownHeight, wHeight, wTarget, notifications, wLast,
                 processed>>
ledgerVars  == <<ledger, blocks>>
histVars    == <<call, admitCount, admittedBy, everPruned>>
sessVars    == <<validator, outpoints, messages, peers, connected, pc, cur, result,
                 nframes>>
nodeVars    == <<validator, ledger, blocks, outpoints, messages, peers, connected, pc,
                 cur, result, nframes, invTasks, invSent, getTasks, dataSent, wpc,
                 lastKnownHeight, wHeight, wTarget, call, admitCount, admittedBy,
                 everPruned, ctxDone, quit, acceptPc, stopPc, stopTodo, stopPeer,
                 disconnects, last, notifications, wLast, processed, start,
                 handler, addr, peerMap, mutex, sender, conn>>
lifeVars    == <<ctxDone, quit, acceptPc, stopPc, stopTodo, stopPeer, disconnects>>

\* The node after utxoChatMain built it, the outpoint store apart: no peer,
\* the watcher at height 0.  The repository has two Validators
\* (database.Validator and message.Validator, the one main.go builds); a run
\* has one of them.  Every outpoint exists and is unspent when the node
\* starts; the last one may have a script that is not taproot.
InitRest ==
    /\ validator \in {"database", "message"}
    /\ ledger \in {l \in [Outpoints -> {"taproot", "other"}] :
                     \A o \in Outpoints : o < NumOutpoints => l[o] = "taproot"}
    /\ blocks = << >>
    /\ messages = [o \in {} |-> 0]
    /\ peers = {}
    /\ connected = [p \in Peers |-> FALSE]
    /\ pc = [p \in Peers |-> "none"]
    /\ cur = [p \in Peers |-> NoFrame]
    /\ result = [p \in Peers |-> "none"]
    /\ nframes = 0
    /\ invTasks = {}
    /\ invSent = {}
    /\ getTasks = EmptyBag
    /\ dataSent = {}
    /\ lastKnownHeight = 0
    /\ wHeight = 0
    /\ wTarget = 0
    /\ call = [p \in Peers |-> NoCall]
    /\ everPruned = {}
    /\ last = [p \in Peers |-> "none"]
    /\ codec = [step |-> "idle"]
    /\ ctxDone = FALSE
    /\ quit = FALSE
    /\ stopPc = "none"
    /\ stopTodo = {}
    /\ stopPeer = 0
    /\ disconnects = [p \in Peers |-> 0]
    /\ wLast = "none"
    /\ processed = {}
    /\ wire = [step |-> "idle"]
    /\ db = << >>
    /\ addr = [p \in Peers |-> 0]
    /\ peerMap = [a \in Addrs |-> 0]
    /\ mutex = [p \in Peers |-> 0]
    /\ sender = [t \in Senders |-> NoSend]
    /\ conn = [p \in Peers |-> << >>]

\* The node after utxoChatMain built it: the store is empty.
InitNode ==
    /\ InitRest
    /\ outpoints = {}
    /\ admitCount = [o \in Outpoints |-> 0]
    /\ admittedBy = [o \in Outpoints |-> {}]

\* Handler before Start: h.cancel is nil, processBlocks does not run.
HandlerNew == [start |-> "new", cancelled |-> FALSE, stop |-> "none", how |-> "none"]

\* Handler after Start returned nil: processBlocks runs; Stop was not called.
HandlerRunning == [HandlerNew EXCEPT !.start = "ok"]

\* Manager.Start returned nil with no known peer to dial (the default
\* KnownPeers): the accept loop runs.
Started == [pc |-> "returned", err |-> "nil", known |-> 0, todo |-> 0,
            dialed |-> 0, failed |-> 0, late |-> 0]

\* The running node, Manager.Start and Handler.Start done, with polling
\* configured (NotificationsEnabled: false): with notifications configured
\* the watcher takes none of its steps, so the runs of that configuration are
\* the runs of this one in which the watcher never acts.
Init ==
    /\ InitNode
    /\ acceptPc = "accept"
    /\ start = Started
    /\ notifications = FALSE
    /\ wpc = "idle"
    /\ handler = HandlerRunning

\* ------------------------------------------------- Bitcoin node (ledger)
\* rpcclient GetTxOut(hash, vout, false): the output, or nil when the outpoint
\* does not exist or is spent in a confirmed block.
GetTxOut(o) == IF ledger[o] = "spent" THEN "nil" ELSE ledger[o]

\* Validator.IsTaprootOutput: a 34-byte script starting with OP_1.
IsTaprootOutput(txOut) == txOut = "taproot"

\* ------------------------------------------------------ outpoint store
HasOutpoint(o) == o \in outpoints

\* A store that keeps only the outpoint added last.
AddOutpointLast(store, o) == {o}

AddOutpoint(store, o) == store \cup {o}

\* A removal that deletes nothing.
RemoveOutpointsNone(store, spent) == store

RemoveOutpoints(store, spent) == store \ spent

\* ----------------------------------------------------------- validator
\* database.Validator.ValidateMessage has its VerifyUTXOOwnership call
\* commented out; message.Validator.ValidateMessage makes it.
ChecksOwnership(v) == v = "message"

\* VerifyUTXOOwnership: nil (TRUE) unless GetTxOut fails or returns no output.
VerifyUTXOOwnership(rpcOk, o) == rpcOk /\ GetTxOut(o) # "nil"

\* VerifySignature returns nil (TRUE) or an error (FALSE).  The one of
\* database.Validator prints the verdict of bip322.VerifySignature and returns
\* nil whatever it was; the one of message.Validator returns an error unless
\* the signature verifies.
VerifySignature(v, sig) == IF v = "database" THEN TRUE ELSE sig = "good"

\* ValidateMessage run from its first line to its return with no step of
\* another task in between, on a store `store`, `owned` being what
\* VerifyUTXOOwnership returns where it is called: the error returned and the
\* store left behind.
ValidateMessage(v, store, m, owned) ==
    IF m.op \in store
    THEN [err |-> "already_seen", store |-> store]
    ELSE IF ChecksOwnership(v) /\ ~owned
    THEN [err |-> "utxo_failed", store |-> store]
    ELSE IF ~VerifySignature(v, m.sig)
    THEN [err |-> "bad_signature", store |-> store]
    ELSE [err |-> "ok", store |-> AddOutpoint(store, m.op)]

\* The positions of a session inside ValidateMessage.
Validating == {"val_has", "val_own", "val_add"}

\* ------------------------------------------------------------- manager
\* A lookup that returns message bytes for an outpoint it holds no payload for.
getMessageFromDBAny(o) == [op |-> o, sig |-> "good"]

\* Manager.getMessageFromDB: "just return nil (message not found)".
getMessageFromDB(o) == NoMessage

\* Manager.storeMessageInDB: logs, stores nothing, returns nil.
storeMessageInDB(cache, o, msgData) == cache

\* A broadcast loop without `if peer == sourcePeer { continue }`.
BroadcastTargetsAll(sourcePeer) == peers

\* broadcastToOtherPeers: the peers of m.peers the loop does not skip.
BroadcastTargets(sourcePeer) == peers \ {sourcePeer}

\* An inv handler that requests every listed outpoint without asking the store.
InvWantedAlways(o) == TRUE

\* handleInvMessage: `if !hasOutpoint { go p.requestData(outpoint) }`.
InvWanted(o) == ~HasOutpoint(o)

\* requestData writes to p.conn, the connection the inv came from.
RequestTarget(p) == p

\* --------------------------------------------------------------- locks
\* Manager.peersMu is write-locked by Manager.Stop from `m.peersMu.Lock()` to
\* `m.peersMu.Unlock()`; every other holder takes and releases it within one
\* step.
PeersMuHeld == stopPc \in {"loop", "blocked"}

\* Peer.mutex of p is held by a Disconnect that waits in removePeerFromList:
\* the one Manager.Stop called, or the session's own.
MutexHeld(p) == (stopPc = "blocked" /\ stopPeer = p) \/ pc[p] = "remove"

\* ------------------------------------------------------------ sessions
\* A read loop that logs a failed read or a handler's error and reads on.
ReadMessagesContinue == "read"

\* readMessages: `return` on a read error, an unknown type or a handler's
\* error; the deferred p.Disconnect() runs next.
ReadMessagesReturn == "disconnect"

\* Peer.Handle before readMessages: "TODO: Implement peer handshake".  Nothing
\* is read from or written to the connection, so no peer has completed a
\* handshake when its frames are read.
HandshakeDone(p) == FALSE

\* Peer.Handle: SetReadDeadline(now + 60 s), then SetReadDeadline(time.Time{})
\* before readMessages: the reads of the session have no deadline.
ReadDeadline(p) == "none"

\* Manager.handleConnection up to peer.Handle(): NewPeer, m.peers[addr] = peer.
Connect(p) ==
    /\ pc[p] = "none"
    /\ \A q \in Peers : q < p => pc[q] # "none"
    /\ acceptPc = "accept" /\ ~quit
    /\ ~PeersMuHeld
    /\ acceptPc' = IF ctxDone THEN "exited" ELSE "accept"
    /\ peers' = peers \cup {p}
    /\ connected' = [connected EXCEPT ![p] = TRUE]
    /\ pc' = [pc EXCEPT ![p] = "read"]
    /\ UNCHANGED <<validator, outpoints, messages, cur, result, nframes>>
    /\ UNCHANGED <<netVars, watcherVars, ledgerVars, histVars>>
    /\ UNCHANGED last
    /\ UNCHANGED <<ctxDone, quit, stopPc, stopTodo, stopPeer, disconnects>>
    /\ UNCHANGED <<codec, wire, db, start, handler, addr, peerMap, mutex, sender, conn>>

\* readMessages: the read of the type byte fails (EOF, closed connection), the
\* type is unknown, or a handler's io.ReadFull fails: the loop returns.
ReadFail(p) ==
    /\ pc[p] = "read"
    /\ nframes < MaxFrames
    /\ nframes' = nframes + 1
    /\ pc' = [pc EXCEPT ![p] = ReadMessagesReturn]
    /\ last' = [last EXCEPT ![p] = "frame_error"]
    /\ UNCHANGED <<validator, outpoints, messages, peers, connected, cur, result>>
    /\ UNCHANGED <<netVars, watcherVars, ledgerVars, histVars>>
    /\ UNCHANGED lifeVars
    /\ UNCHANGED <<codec, wire, db, start, handler, addr, peerMap, mutex, sender, conn>>

\* readMessages + handleInvMessage: the type byte and the count are read.
ReadInv(p, list) ==
    /\ pc[p] = "read"
    /\ connected[p]
    /\ nframes < MaxFrames
    /\ nframes' = nframes + 1
    /\ last' = [last EXCEPT ![p] = "none"]
    /\ cur' = [cur EXCEPT ![p] = [type |-> "inv", list |-> list]]
    /\ pc' = [pc EXCEPT ![p] = "inv"]
    /\ UNCHANGED <<validator, outpoints, messages, peers, connected, result>>
    /\ UNCHANGED <<netVars, watcherVars, ledgerVars, histVars>>
    /\ UNCHANGED lifeVars
    /\ UNCHANGED <<codec, wire, db, start, handler, addr, peerMap, mutex, sender, conn>>

\* handleInvMessage, one turn of the loop: read the outpoint, HasOutpoint, and
\* start requestData in a goroutine when the store does not hold it.
InvItem(p) ==
    /\ pc[p] = "inv"
    /\ cur[p].list # << >>
    /\ LET o == Head(cur[p].list)
           t == [to |-> RequestTarget(p), op |-> o]
       IN  getTasks' = IF InvWanted(o) THEN getTasks (+) SetToBag({t}) ELSE getTasks
    /\ cur' = [cur EXCEPT ![p].list = Tail(@)]
    /\ UNCHANGED <<validator, outpoints, messages, peers, connected, pc, result,
                   nframes, invTasks, invSent, dataSent>>
    /\ UNCHANGED <<watcherVars, ledgerVars, histVars>>
    /\ UNCHANGED last
    /\ UNCHANGED lifeVars
    /\ UNCHANGED <<codec, wire, db, start, handler, addr, peerMap, mutex, sender, conn>>

\* handleInvMessage: io.ReadFull of the next listed outpoint fails (the frame
\* is shorter than its count); the error ends readMessages.  What the earlier
\* turns scheduled stays scheduled.
InvFail(p) ==
    /\ pc[p] = "inv"
    /\ cur[p].list # << >>
    /\ pc' = [pc EXCEPT ![p] = ReadMessagesReturn]
    /\ last' = [last EXCEPT ![p] = "frame_error"]
    /\ UNCHANGED <<validator, outpoints, messages, peers, connected, cur, result, nframes>>
    /\ UNCHANGED <<netVars, watcherVars, ledgerVars, histVars>>
    /\ UNCHANGED lifeVars
    /\ UNCHANGED <<codec, wire, db, start, handler, addr, peerMap, mutex, sender, conn>>

\* handleInvMessage: the loop is over (at once when count is 0), `return nil`,
\* and readMessages goes on to the next frame.
InvReturn(p) ==
    /\ pc[p] = "inv"
    /\ cur[p].list = << >>
    /\ cur' = [cur EXCEPT ![p] = NoFrame]
    /\ pc' = [pc EXCEPT ![p] = "read"]
    /\ UNCHANGED <<validator, outpoints, messages, peers, connected, result, nframes>>
    /\ UNCHANGED <<netVars, watcherVars, ledgerVars, histVars>>
    /\ UNCHANGED last
    /\ UNCHANGED lifeVars
    /\ UNCHANGED <<codec, wire, db, start, handler, addr, peerMap, mutex, sender, conn>>

\* readMessages + handleGetDataMessage: the type byte and the outpoint are read.
ReadGetData(p, o) ==
    /\ pc[p] = "read"
    /\ connected[p]
    /\ nframes < MaxFrames
    /\ nframes' = nframes + 1
    /\ last' = [last EXCEPT ![p] = "none"]
    /\ cur' = [cur EXCEPT ![p] = [type |-> "getdata", op |-> o]]
    /\ pc' = [pc EXCEPT ![p] = "getdata"]
    /\ UNCHANGED <<validator, outpoints, messages, peers, connected, result>>
    /\ UNCHANGED <<netVars, watcherVars, ledgerVars, histVars>>
    /\ UNCHANGED lifeVars
    /\ UNCHANGED <<codec, wire, db, start, handler, addr, peerMap, mutex, sender, conn>>

\* handleGetDataMessage: getMessageFromDB, then either ignore the request (nil)
\* or sendDataMessage(msgData), whose error ends the session.
ServeGetData(p) ==
    /\ pc[p] = "getdata"
    /\ getMessageFromDB(cur[p].op) = NoMessage \/ ~MutexHeld(p)
    /\ LET msgData == getMessageFromDB(cur[p].op)
       IN  /\ dataSent' = IF msgData = NoMessage \/ ~connected[p]
                          THEN dataSent
                          ELSE dataSent \cup {[to |-> p, body |-> msgData]}
           /\ pc' = [pc EXCEPT ![p] =
                        IF msgData = NoMessage \/ connected[p] THEN "read" ELSE ReadMessagesReturn]
           /\ last' = [last EXCEPT ![p] = IF msgData = NoMessage THEN "ignored" ELSE "none"]
    /\ cur' = [cur EXCEPT ![p] = NoFrame]
    /\ UNCHANGED <<validator, outpoints, messages, peers, connected, result, nframes,
                   invTasks, invSent, getTasks>>
    /\ UNCHANGED <<watcherVars, ledgerVars, histVars>>
    /\ UNCHANGED lifeVars
    /\ UNCHANGED <<codec, wire, db, start, handler, addr, peerMap, mutex, sender, conn>>

\* handleDataMessage up to ValidateMessage: the frame is read and deserialized,
\* then extractPubKey asks the Bitcoin node for the output and fails when the
\* call fails, the output is nil, or it is not a taproot output.
ReadData(p, m, rpcOk) ==
    /\ pc[p] = "read"
    /\ connected[p]
    /\ nframes < MaxFrames
    /\ nframes' = nframes + 1
    /\ last' = [last EXCEPT ![p] = "none"]
    /\ LET txOut == GetTxOut(m.op)
       IN  IF rpcOk /\ txOut # "nil" /\ IsTaprootOutput(txOut)
           THEN /\ cur' = [cur EXCEPT ![p] = [type |-> "data", msg |-> m]]
                /\ pc' = [pc EXCEPT ![p] = "val_has"]
           ELSE /\ cur' = cur
                /\ pc' = [pc EXCEPT ![p] = ReadMessagesReturn]
    /\ UNCHANGED <<validator, outpoints, messages, peers, connected, result>>
    /\ UNCHANGED <<netVars, watcherVars, ledgerVars, histVars>>
    /\ UNCHANGED lifeVars
    /\ UNCHANGED <<codec, wire, db, start, handler, addr, peerMap, mutex, sender, conn>>

\* ValidateMessage: `seen, err := v.db.HasOutpoint(ctx, msg.Outpoint)`.  The
\* context is context.Background(), so err is nil.
ValHas(p) ==
    /\ pc[p] = "val_has"
    /\ LET o == cur[p].msg.op
       IN  /\ call' = [call EXCEPT ![p].replay = ~HasOutpoint(o),
                                   ![p].live = (ledger[o] # "spent")]
           /\ IF HasOutpoint(o)
              THEN /\ result' = [result EXCEPT ![p] = "already_seen"]
                   /\ pc' = [pc EXCEPT ![p] = ReadMessagesReturn]
              ELSE /\ result' = result
                   /\ pc' = [pc EXCEPT ![p] =
                                IF ChecksOwnership(validator) THEN "val_own" ELSE "val_add"]
    /\ UNCHANGED <<validator, outpoints, messages, peers, connected, cur, nframes>>
    /\ UNCHANGED <<netVars, watcherVars, ledgerVars, admitCount, admittedBy, everPruned>>
    /\ UNCHANGED last
    /\ UNCHANGED lifeVars
    /\ UNCHANGED <<codec, wire, db, start, handler, addr, peerMap, mutex, sender, conn>>

\* message.Validator.ValidateMessage: VerifyUTXOOwnership.
ValOwn(p, rpcOk) ==
    /\ pc[p] = "val_own"
    /\ LET o == cur[p].msg.op
       IN  IF VerifyUTXOOwnership(rpcOk, o)
           THEN /\ call' = [call EXCEPT ![p].own = TRUE]
                /\ result' = result
                /\ pc' = [pc EXCEPT ![p] = "val_add"]
           ELSE /\ call' = call
                /\ result' = [result EXCEPT ![p] = "utxo_failed"]
                /\ pc' = [pc EXCEPT ![p] = ReadMessagesReturn]
    /\ UNCHANGED <<validator, outpoints, messages, peers, connected, cur, nframes>>
    /\ UNCHANGED <<netVars, watcherVars, ledgerVars, admitCount, admittedBy, everPruned>>
    /\ UNCHANGED last
    /\ UNCHANGED lifeVars
    /\ UNCHANGED <<codec, wire, db, start, handler, addr, peerMap, mutex, sender, conn>>

\* ValidateMessage: VerifySignature, then AddOutpoint and `return nil`.
ValAdd(p) ==
    /\ pc[p] = "val_add"
    /\ LET m == cur[p].msg
       IN  IF VerifySignature(validator, m.sig)
           THEN /\ outpoints' = AddOutpoint(outpoints, m.op)
                /\ result' = [result EXCEPT ![p] = "ok"]
                /\ pc' = [pc EXCEPT ![p] = "broadcast"]
                /\ call' = [call EXCEPT ![p].sig = (m.sig = "good")]
                /\ admitCount' = [admitCount EXCEPT ![m.op] = @ + 1]
                /\ admittedBy' = [admittedBy EXCEPT ![m.op] = @ \cup {m}]
           ELSE /\ outpoints' = outpoints
                /\ result' = [result EXCEPT ![p] = "bad_signature"]
                /\ pc' = [pc EXCEPT ![p] = ReadMessagesReturn]
                /\ UNCHANGED <<call, admitCount, admittedBy>>
    /\ UNCHANGED <<validator, messages, peers, connected, cur, nframes, everPruned>>
    /\ UNCHANGED <<netVars, watcherVars, ledgerVars>>
    /\ UNCHANGED last
    /\ UNCHANGED lifeVars
    /\ UNCHANGED <<codec, wire, db, start, handler, addr, peerMap, mutex, sender, conn>>

\* The next step of the ValidateMessage call session p is in.
ValidateStep(p) == ValHas(p) \/ (\E rpcOk \in BOOLEAN : ValOwn(p, rpcOk)) \/ ValAdd(p)

\* handleDataMessage after ValidateMessage returned nil: storeMessageInDB, then
\* broadcastToOtherPeers starts one goroutine per peer it does not skip;
\* `return nil` and readMessages goes on to the next frame.
Broadcast(p) ==
    /\ pc[p] = "broadcast"
    /\ ~PeersMuHeld
    /\ LET m == cur[p].msg
       IN  /\ messages' = storeMessageInDB(messages, m.op, m)
           /\ invTasks' = invTasks \cup
                 {[to |-> q, op |-> m.op, src |-> p, admitted |-> result[p] = "ok",
                   cached |-> m.op \in DOMAIN messages'] : q \in BroadcastTargets(p)}
    /\ pc' = [pc EXCEPT ![p] = "read"]
    /\ cur' = [cur EXCEPT ![p] = NoFrame]
    /\ result' = [result EXCEPT ![p] = "none"]
    /\ call' = [call EXCEPT ![p] = NoCall]
    /\ UNCHANGED <<validator, outpoints, peers, connected, nframes, invSent,
                   getTasks, dataSent, admitCount, admittedBy, everPruned>>
    /\ UNCHANGED <<watcherVars, ledgerVars>>
    /\ UNCHANGED last
    /\ UNCHANGED lifeVars
    /\ UNCHANGED <<codec, wire, db, start, handler, addr, peerMap, mutex, sender, conn>>

\* readMessages returned (read error, unknown type, or a handler's error, a
\* rejection by ValidateMessage included) and its deferred p.Disconnect() runs:
\* under p.mutex, nothing when the peer is no longer connected; else it closes
\* the connection, marks the peer not connected, closes p.disconnect and calls
\* removePeerFromList, which waits for Manager.peersMu (pc "remove") while
\* Manager.Stop holds it.
Disconnect(p) ==
    /\ pc[p] = "disconnect"
    /\ ~MutexHeld(p)
    /\ connected' = [connected EXCEPT ![p] = FALSE]
    /\ disconnects' = [disconnects EXCEPT ![p] = IF connected[p] THEN @ + 1 ELSE @]
    /\ peers' = IF connected[p] /\ ~PeersMuHeld THEN peers \ {p} ELSE peers
    /\ pc' = [pc EXCEPT ![p] = IF connected[p] /\ PeersMuHeld THEN "remove" ELSE "cleanup"]
    /\ cur' = [cur EXCEPT ![p] = NoFrame]
    /\ result' = [result EXCEPT ![p] = "none"]
    /\ call' = [call EXCEPT ![p] = NoCall]
    /\ UNCHANGED <<validator, outpoints, messages, nframes, admitCount, admittedBy,
                   everPruned>>
    /\ UNCHANGED <<netVars, watcherVars, ledgerVars>>
    /\ UNCHANGED <<ctxDone, quit, acceptPc, stopPc, stopTodo, stopPeer, last>>
    /\ UNCHANGED <<codec, wire, db, start, handler, addr, peerMap, mutex, sender, conn>>

\* handleConnection's deferred calls: delete(m.peers, addr), conn.Close().
Cleanup(p) ==
    /\ pc[p] = "cleanup"
    /\ ~PeersMuHeld
    /\ peers' = peers \ {p}
    /\ pc' = [pc EXCEPT ![p] = "closed"]
    /\ last' = [last EXCEPT ![p] = "none"]
    /\ UNCHANGED <<validator, outpoints, messages, connected, cur, result, nframes>>
    /\ UNCHANGED <<netVars, watcherVars, ledgerVars, histVars>>
    /\ UNCHANGED lifeVars
    /\ UNCHANGED <<codec, wire, db, start, handler, addr, peerMap, mutex, sender, conn>>

\* The goroutine of broadcastToOtherPeers: p.SendMessage(MessageTypeInv, data)
\* writes under p.mutex unless the peer is no longer connected.
SendInv(t) ==
    /\ t \in invTasks
    /\ ~MutexHeld(t.to)
    /\ invTasks' = invTasks \ {t}
    /\ invSent' = IF connected[t.to] THEN invSent \cup {t} ELSE invSent
    /\ UNCHANGED <<validator, outpoints, messages, peers, connected, pc, cur,
                   result, nframes, getTasks, dataSent>>
    /\ UNCHANGED <<watcherVars, ledgerVars, histVars>>
    /\ UNCHANGED last
    /\ UNCHANGED lifeVars
    /\ UNCHANGED <<codec, wire, db, start, handler, addr, peerMap, mutex, sender, conn>>

\* Peer.requestData: writes the getdata frame under p.mutex unless the peer is
\* no longer connected.
RequestData(t) ==
    /\ t \in BagToSet(getTasks)
    /\ ~MutexHeld(t.to)
    /\ getTasks' = getTasks (-) SetToBag({t})
    /\ UNCHANGED <<validator, outpoints, messages, peers, connected, pc, cur,
                   result, nframes, invTasks, invSent, dataSent>>
    /\ UNCHANGED <<watcherVars, ledgerVars, histVars>>
    /\ UNCHANGED last
    /\ UNCHANGED lifeVars
    /\ UNCHANGED <<codec, wire, db, start, handler, addr, peerMap, mutex, sender, conn>>

\* readMessages on a connection that a Disconnect of Manager.Stop closed: the
\* disconnect signal or the failing read ends the loop.
ReadClosed(p) ==
    /\ pc[p] = "read"
    /\ ~connected[p]
    /\ pc' = [pc EXCEPT ![p] = ReadMessagesReturn]
    /\ last' = [last EXCEPT ![p] = "frame_error"]
    /\ UNCHANGED <<validator, outpoints, messages, peers, connected, cur, result, nframes>>
    /\ UNCHANGED <<netVars, watcherVars, ledgerVars, histVars, lifeVars>>
    /\ UNCHANGED <<codec, wire, db, start, handler, addr, peerMap, mutex, sender, conn>>

\* ------------------------------------------------------------ shutdown
\* utxoChatMain after the interrupt: `cancel()`.
CtxCancel ==
    /\ ~ctxDone
    /\ ctxDone' = TRUE
    /\ UNCHANGED <<quit, acceptPc, stopPc, stopTodo, stopPeer, disconnects, last>>
    /\ UNCHANGED <<sessVars, netVars, watcherVars, ledgerVars, histVars>>
    /\ UNCHANGED <<codec, wire, db, start, handler, addr, peerMap, mutex, sender, conn>>

\* acceptConnections: Accept fails on the closed listener and the loop returns
\* because m.quit is closed.  (A cancelled context is only looked at before the
\* next Accept, that is after the next connection: see Connect.)
AcceptExit ==
    /\ acceptPc = "accept"
    /\ quit
    /\ acceptPc' = "exited"
    /\ UNCHANGED <<ctxDone, quit, stopPc, stopTodo, stopPeer, disconnects, last>>
    /\ UNCHANGED <<sessVars, netVars, watcherVars, ledgerVars, histVars>>
    /\ UNCHANGED <<codec, wire, db, start, handler, addr, peerMap, mutex, sender, conn>>

\* Manager.Stop, called by utxoChatMain after cancel(): close(m.quit) and
\* m.listener.Close().
StopBegin ==
    /\ stopPc = "none"
    /\ ctxDone
    /\ quit' = TRUE
    /\ stopPc' = "lock"
    /\ UNCHANGED <<ctxDone, acceptPc, stopTodo, stopPeer, disconnects, last>>
    /\ UNCHANGED <<sessVars, netVars, watcherVars, ledgerVars, histVars>>
    /\ UNCHANGED <<codec, wire, db, start, handler, addr, peerMap, mutex, sender, conn>>

\* Manager.Stop: m.peersMu.Lock() and the start of `for _, peer := range m.peers`.
StopLock ==
    /\ stopPc = "lock"
    /\ stopTodo' = peers
    /\ stopPc' = "loop"
    /\ UNCHANGED <<ctxDone, quit, acceptPc, stopPeer, disconnects, last>>
    /\ UNCHANGED <<sessVars, netVars, watcherVars, ledgerVars, histVars>>
    /\ UNCHANGED <<codec, wire, db, start, handler, addr, peerMap, mutex, sender, conn>>

\* Manager.Stop, one turn of the loop: peer.Disconnect() takes p.mutex, returns
\* at once when the peer is not connected, else closes the connection, marks
\* the peer not connected, closes p.disconnect and calls removePeerFromList,
\* whose m.peersMu.Lock() waits for the lock Stop itself holds ("blocked").
StopDisconnect(p) ==
    /\ stopPc = "loop"
    /\ p \in stopTodo
    /\ ~MutexHeld(p)
    /\ IF connected[p]
       THEN /\ connected' = [connected EXCEPT ![p] = FALSE]
            /\ disconnects' = [disconnects EXCEPT ![p] = @ + 1]
            /\ stopPc' = "blocked"
            /\ stopPeer' = p
            /\ stopTodo' = stopTodo
       ELSE /\ stopTodo' = stopTodo \ {p}
            /\ UNCHANGED <<connected, disconnects, stopPc, stopPeer>>
    /\ UNCHANGED <<validator, outpoints, messages, peers, pc, cur, result, nframes>>
    /\ UNCHANGED <<ctxDone, quit, acceptPc, last>>
    /\ UNCHANGED <<netVars, watcherVars, ledgerVars, histVars>>
    /\ UNCHANGED <<codec, wire, db, start, handler, addr, peerMap, mutex, sender, conn>>

\* Manager.Stop: the loop is over, m.peersMu.Unlock(), then m.wg.Wait().
StopUnlock ==
    /\ stopPc = "loop"
    /\ stopTodo = {}
    /\ stopPc' = "wait"
    /\ UNCHANGED <<ctxDone, quit, acceptPc, stopTodo, stopPeer, disconnects, last>>
    /\ UNCHANGED <<sessVars, netVars, watcherVars, ledgerVars, histVars>>
    /\ UNCHANGED <<codec, wire, db, start, handler, addr, peerMap, mutex, sender, conn>>

\* Manager.Stop: m.wg.Wait() returns once acceptConnections and every
\* handleConnection have returned; `return nil`.
StopReturn ==
    /\ stopPc = "wait"
    /\ acceptPc = "exited"
    /\ \A p \in Peers : pc[p] \in {"none", "closed"}
    /\ stopPc' = "returned"
    /\ UNCHANGED <<ctxDone, quit, acceptPc, stopTodo, stopPeer, disconnects, last>>
    /\ UNCHANGED <<sessVars, netVars, watcherVars, ledgerVars, histVars>>
    /\ UNCHANGED <<codec, wire, db, start, handler, addr, peerMap, mutex, sender, conn>>

\* ------------------------------------------------------------- watcher
\* The Bitcoin node confirms a block that spends some unspent outpoints; the
\* chain grows to at most `limit` blocks.
Mine(spent, limit) ==
    /\ Len(blocks) < limit
    /\ \A o \in spent : ledger[o] # "spent"
    /\ ledger' = [o \in Outpoints |-> IF o \in spent THEN "spent" ELSE ledger[o]]
    /\ blocks' = Append(blocks, spent)
    /\ UNCHANGED <<validator, outpoints, messages, peers, connected, pc, cur,
                   result, nframes>>
    /\ UNCHANGED <<netVars, watcherVars, histVars>>
    /\ UNCHANGED last
    /\ UNCHANGED lifeVars
    /\ UNCHANGED <<codec, wire, db, start, handler, addr, peerMap, mutex, sender, conn>>

MineBlock(spent) == Mine(spent, MaxHeight)

MineChain(spent) == Mine(spent, MaxChain)

\* A poll that takes every reported height for a new one.
NewBlocksAlways(h) == TRUE

\* processBlocks: `if info.Blocks > lastKnownHeight`.
NewBlocks(h) == h > lastKnownHeight

\* A tick of processBlocks changes only the watcher's own variables.
TickFrame ==
    /\ UNCHANGED <<validator, outpoints, messages, peers, connected, pc, cur,
                   result, nframes, lastKnownHeight, notifications, processed>>
    /\ UNCHANGED <<netVars, ledgerVars, histVars>>
    /\ UNCHANGED last
    /\ UNCHANGED lifeVars
    /\ UNCHANGED <<codec, wire, db, start, handler, addr, peerMap, mutex, sender, conn>>

\* processBlocks, one tick of the ticker with polling on: GetBlockchainInfo
\* reports h blocks, more than lastKnownHeight, and the loop over the heights
\* lastKnownHeight+1 .. h starts.
WatcherTick(h) ==
    /\ wpc = "idle"
    /\ ~notifications
    /\ h \in 1..Len(blocks)
    /\ NewBlocks(h)
    /\ wTarget' = h
    /\ wHeight' = lastKnownHeight + 1
    /\ wpc' = "scan"
    /\ wLast' = "scan"
    /\ TickFrame

\* processBlocks, one tick with polling on: GetBlockchainInfo reports h
\* blocks, not more than lastKnownHeight (`info.Blocks > lastKnownHeight` is
\* false); nothing is done.
WatcherTickStale(h) ==
    /\ wpc = "idle"
    /\ ~notifications
    /\ h \in 0..Len(blocks)
    /\ ~NewBlocks(h)
    /\ wLast' = IF h < lastKnownHeight THEN "lower" ELSE "same"
    /\ UNCHANGED <<wpc, wHeight, wTarget>>
    /\ TickFrame

\* processBlocks, one tick with polling on: GetBlockchainInfo fails; the error
\* is logged and the loop continues.
WatcherTickError ==
    /\ wpc = "idle"
    /\ ~notifications
    /\ wLast' = "error"
    /\ UNCHANGED <<wpc, wHeight, wTarget>>
    /\ TickFrame

\* processBlocks, one tick with notifications configured: the body under
\* `if !h.config.NotificationsEnabled` is skipped and nothing else is there.
WatcherTickOff ==
    /\ wpc = "idle"
    /\ notifications
    /\ wLast' = "off"
    /\ UNCHANGED <<wpc, wHeight, wTarget>>
    /\ TickFrame

\* h.ctx, made by Handler.Start from the context utxoChatMain passes, is done
\* once that context is cancelled or Handler.Stop has called h.cancel.
HCtxDone == handler.start # "new" /\ (ctxDone \/ handler.cancelled)

\* extractSpentOutpoints returns every outpoint the block spends when
\* GetBlockVerboseTx answers; when it fails, extractSpentOutpointsFromTxIDs
\* skips each transaction whose GetRawTransaction fails and returns the
\* outpoints of the others, with no error.
Extracted(height) == SUBSET blocks[height]

\* processBlocks, one turn of the loop: handleNewBlock(height) removes the
\* outpoints it extracted from the block and returns nil (ok), or fails and is
\* logged; after the last height `lastKnownHeight = info.Blocks`.  With h.ctx
\* done, RemoveOutpoints returns the context's error before it removes
\* anything, so handleNewBlock fails unless it extracted no outpoint.
WatcherBlock(ok, seen) ==
    /\ wpc = "scan"
    /\ seen \in Extracted(wHeight)
    /\ ~ok => seen = {}
    /\ HCtxDone => seen = {}
    /\ LET gone == seen \cap outpoints
       IN  /\ outpoints' = RemoveOutpoints(outpoints, seen)
           /\ admitCount' = [o \in Outpoints |-> IF o \in gone THEN 0 ELSE admitCount[o]]
           /\ admittedBy' = [o \in Outpoints |-> IF o \in gone THEN {} ELSE admittedBy[o]]
           /\ everPruned' = everPruned \cup gone
    /\ processed' = IF ok THEN processed \cup {wHeight} ELSE processed
    /\ IF wHeight = wTarget
       THEN /\ lastKnownHeight' = wTarget
            /\ wpc' = "idle"
            /\ wHeight' = wHeight
       ELSE /\ wHeight' = wHeight + 1
            /\ UNCHANGED <<lastKnownHeight, wpc>>
    /\ UNCHANGED <<validator, messages, peers, connected, pc, cur, result,
                   nframes, wTarget, call, notifications, wLast>>
    /\ UNCHANGED <<netVars, ledgerVars>>
    /\ UNCHANGED last
    /\ UNCHANGED lifeVars
    /\ UNCHANGED <<codec, wire, db, start, handler, addr, peerMap, mutex, sender, conn>>

Next ==
    \/ \E p \in Peers : Connect(p)
    \/ \E p \in Peers : ReadFail(p)
    \/ \E p \in Peers, list \in InvLists : ReadInv(p, list)
    \/ \E p \in Peers : InvItem(p)
    \/ \E p \in Peers : InvFail(p)
    \/ \E p \in Peers : InvReturn(p)
    \/ \E p \in Peers, o \in Outpoints : ReadGetData(p, o)
    \/ \E p \in Peers : ServeGetData(p)
    \/ \E p \in Peers, m \in Messages, rpcOk \in BOOLEAN : ReadData(p, m, rpcOk)
    \/ \E p \in Peers : ValHas(p)
    \/ \E p \in Peers, rpcOk \in BOOLEAN : ValOwn(p, rpcOk)
    \/ \E p \in Peers : ValAdd(p)
    \/ \E p \in Peers : Broadcast(p)
    \/ \E p \in Peers : Disconnect(p)
    \/ \E p \in Peers : Cleanup(p)
    \/ \E t \in invTasks : SendInv(t)
    \/ \E t \in BagToSet(getTasks) : RequestData(t)
    \/ \E spent \in SUBSET Outpoints : MineBlock(spent)
    \/ \E h \in 1..MaxHeight : WatcherTick(h)
    \/ \E ok \in BOOLEAN, seen \in SUBSET Outpoints : WatcherBlock(ok, seen)

\* The node while it runs: no shutdown signal is given.
Spec == Init /\ [][Next]_vars

\* The node from start to shutdown: the sessions' data path (the steps that
\* take Manager.peersMu or Peer.mutex, or that read from the connection) with
\* utxoChatMain's cancel() and Manager.Stop() arriving at any moment.
NextShutdown ==
    \/ \E p \in Peers : Connect(p)
    \/ \E p \in Peers : ReadFail(p)
    \/ \E p \in Peers, m \in Messages, rpcOk \in BOOLEAN : ReadData(p, m, rpcOk)
    \/ \E p \in Peers : ValHas(p)
    \/ \E p \in Peers, rpcOk \in BOOLEAN : ValOwn(p, rpcOk)
    \/ \E p \in Peers : ValAdd(p)
    \/ \E p \in Peers : Broadcast(p)
    \/ \E p \in Peers : Disconnect(p)
    \/ \E p \in Peers : Cleanup(p)
    \/ \E t \in invTasks : SendInv(t)
    \/ \E p \in Peers : ReadClosed(p)
    \/ CtxCancel
    \/ AcceptExit
    \/ StopBegin
    \/ StopLock
    \/ \E p \in Peers : StopDisconnect(p)
    \/ StopUnlock
    \/ StopReturn

SpecShutdown == Init /\ [][NextShutdown]_vars

\* The node in either configuration of the watcher, when earlier sessions
\* have admitted one message for each outpoint of a set and have ended (only
\* an outpoint with a taproot script is admitted: extractPubKey).
InitWatcher ==
    /\ InitRest
    /\ outpoints \in SUBSET {o \in Outpoints : ledger[o] = "taproot"}
    /\ admitCount = [o \in Outpoints |-> IF o \in outpoints THEN 1 ELSE 0]
    /\ admittedBy = [o \in Outpoints |->
                       IF o \in outpoints THEN {[op |-> o, sig |-> "good"]} ELSE {}]
    /\ acceptPc = "accept"
    /\ start = Started
    /\ notifications \in BOOLEAN
    /\ wpc = "idle"
    /\ handler = HandlerRunning

\* The watcher followed over a chain of several blocks, with every answer the
\* Bitcoin node can give to its calls.
NextWatcher ==
    \/ \E spent \in SUBSET Outpoints : MineChain(spent)
    \/ \E h \in 1..MaxChain : WatcherTick(h)
    \/ \E h \in 0..MaxChain : WatcherTickStale(h)
    \/ WatcherTickError
    \/ WatcherTickOff
    \/ \E ok \in BOOLEAN, seen \in SUBSET Outpoints : WatcherBlock(ok, seen)

SpecWatcher == InitWatcher /\ [][NextWatcher]_vars

\* The watcher while the Bitcoin node answers every call: a tick learns the
\* height of the chain, a block is fetched with all its transactions.
NextReachable ==
    \/ \E spent \in SUBSET Outpoints : MineChain(spent)
    \/ WatcherTick(Len(blocks))
    \/ WatcherTickOff
    \/ \E h \in 1..MaxChain : h = wHeight /\ WatcherBlock(TRUE, blocks[h])

\* The ticker fires every 5 seconds and the loop over the heights runs on: a
\* step of the watcher that stays possible is taken.
SpecWatcherFair ==
    /\ InitWatcher
    /\ [][NextReachable]_vars
    /\ WF_vars(WatcherTick(Len(blocks)))
    /\ WF_vars(\E h \in 1..MaxChain : h = wHeight /\ WatcherBlock(TRUE, blocks[h]))

\* ------------------------------------------- admission beside pruning
\* The sessions' admission path beside a watcher whose calls to the Bitcoin
\* node all succeed: every tick learns the height of the chain, every block
\* is fetched with all its transactions, and every removal is done.
NextPrune ==
    \/ \E p \in Peers : Connect(p)
    \/ \E p \in Peers, m \in Messages, rpcOk \in BOOLEAN : ReadData(p, m, rpcOk)
    \/ \E p \in Peers : ValHas(p)
    \/ \E p \in Peers, rpcOk \in BOOLEAN : ValOwn(p, rpcOk)
    \/ \E p \in Peers : ValAdd(p)
    \/ \E p \in Peers : Broadcast(p)
    \/ \E p \in Peers : Disconnect(p)
    \/ \E p \in Peers : Cleanup(p)
    \/ \E spent \in SUBSET Outpoints : MineBlock(spent)
    \/ WatcherTick(Len(blocks))
    \/ \E h \in 1..MaxHeight : h = wHeight /\ WatcherBlock(TRUE, blocks[h])

SpecPrune == Init /\ [][NextPrune]_vars

\* ------------------------------------------------- the peer registry
\* Manager.peers is a map keyed by conn.RemoteAddr().String().  The node
\* specifications above take the remote addresses of the connections as all
\* different, so that the map is the set `peers` of its values; here the
\* addresses are followed, with the steps that take Manager.peersMu.  The
\* socket of a connection is open from its accept or dial until conn.Close(),
\* which Peer.Disconnect calls first.
RegistryFrame ==
    /\ UNCHANGED <<validator, outpoints, messages, peers, cur, result, nframes>>
    /\ UNCHANGED <<netVars, watcherVars, ledgerVars, histVars, lifeVars>>
    /\ UNCHANGED <<last, codec, wire, db, start, handler, mutex, sender, conn>>

\* acceptConnections: Accept returns a connection from remote address a, and
\* `go m.handleConnection(conn)`; handleConnection up to NewPeer.  TCP gives
\* no second connection from an address whose earlier socket is still open.
RegAccept(p, a) ==
    /\ pc[p] = "none"
    /\ \A q \in Peers : q < p => pc[q] # "none"
    /\ \A q \in Peers : addr[q] = a => ~(pc[q] \notin {"none", "closed"} /\ connected[q])
    /\ addr' = [addr EXCEPT ![p] = a]
    /\ connected' = [connected EXCEPT ![p] = TRUE]
    /\ pc' = [pc EXCEPT ![p] = "new"]
    /\ UNCHANGED peerMap
    /\ RegistryFrame

\* connectToPeer(a): `_, exists := m.peers[addr]` under RLock, an error when
\* it exists; else net.Dial and `go m.handleConnection(conn)`; handleConnection
\* up to NewPeer.  (An outbound connection has its own local port: a second
\* one to the same remote address can be open beside the first.)
RegDial(p, a) ==
    /\ pc[p] = "none"
    /\ \A q \in Peers : q < p => pc[q] # "none"
    /\ peerMap[a] = 0
    /\ addr' = [addr EXCEPT ![p] = a]
    /\ connected' = [connected EXCEPT ![p] = TRUE]
    /\ pc' = [pc EXCEPT ![p] = "new"]
    /\ UNCHANGED peerMap
    /\ RegistryFrame

\* handleConnection: m.peersMu.Lock(); m.peers[addr] = peer; Unlock; then
\* peer.Handle() reads.
RegRegister(p) ==
    /\ pc[p] = "new"
    /\ peerMap' = [peerMap EXCEPT ![addr[p]] = p]
    /\ pc' = [pc EXCEPT ![p] = "read"]
    /\ UNCHANGED <<addr, connected>>
    /\ RegistryFrame

\* readMessages returns (a read error, an unknown type, a handler's error).
RegReadEnd(p) ==
    /\ pc[p] = "read"
    /\ pc' = [pc EXCEPT ![p] = ReadMessagesReturn]
    /\ UNCHANGED <<addr, connected, peerMap>>
    /\ RegistryFrame

\* Peer.Disconnect, deferred by readMessages: conn.Close(), connected = false,
\* and removePeerFromList: `if _, exists := m.peers[addr]; exists { delete }`,
\* whichever peer the entry holds.
RegDisconnect(p) ==
    /\ pc[p] = "disconnect"
    /\ connected' = [connected EXCEPT ![p] = FALSE]
    /\ peerMap' = [peerMap EXCEPT ![addr[p]] = 0]
    /\ pc' = [pc EXCEPT ![p] = "cleanup"]
    /\ UNCHANGED addr
    /\ RegistryFrame

\* handleConnection's deferred calls: delete(m.peers, addr), conn.Close(),
\* m.wg.Done(): the task of the connection has ended.
RegCleanup(p) ==
    /\ pc[p] = "cleanup"
    /\ peerMap' = [peerMap EXCEPT ![addr[p]] = 0]
    /\ pc' = [pc EXCEPT ![p] = "closed"]
    /\ UNCHANGED <<addr, connected>>
    /\ RegistryFrame

NextRegistry ==
    \/ \E p \in Peers, a \in InAddrs : RegAccept(p, a)
    \/ \E p \in Peers, a \in OutAddrs : RegDial(p, a)
    \/ \E p \in Peers : RegRegister(p)
    \/ \E p \in Peers : RegReadEnd(p)
    \/ \E p \in Peers : RegDisconnect(p)
    \/ \E p \in Peers : RegCleanup(p)

\* Connections coming and going, inbound and outbound, by remote address.
SpecRegistry == Init /\ [][NextRegistry]_vars

\* ----------------------------------------------- sending to a peer
\* The send operations of Peer (requestData, sendDataMessage, SendMessage),
\* Write call by Write call, called by tasks that run beside each other (the
\* goroutines of handleInvMessage and of broadcastToOtherPeers, the session's
\* own handleGetDataMessage), and Peer.Disconnect.
\*
\* The conn.Write calls one frame takes: requestData writes type and outpoint
\* in one call; sendDataMessage writes header, then data; SendMessage writes
\* the type, then the data.
Writes(kind) == IF kind = "requestData" THEN 1 ELSE 2

\* One successful Write: part k of the n of the frame of task t.
Chunk(t, k, n) == [by |-> t, part |-> k, of |-> n]

\* The connection failed or was closed: every later Write returns an error.
Broken == [by |-> 0, part |-> 0, of |-> 0]

ConnBroken(p) == conn[p] # << >> /\ conn[p][Len(conn[p])] = Broken

\* conn.Write on p.conn: the bytes are written, or the call fails and the
\* connection is broken from then on.
Write(p, chunk, ok) ==
    IF ConnBroken(p) THEN conn
    ELSE [conn EXCEPT ![p] = Append(@, IF ok THEN chunk ELSE Broken)]

\* Senders that do not take p.mutex.
LockedNever(p) == FALSE

\* p.mutex.Lock() has to wait.
Locked(p) == mutex[p] # 0

\* Senders that do not look at p.connected.
RefusesNever(p) == FALSE

\* `if !p.connected { return fmt.Errorf("peer disconnected") }`.
Refuses(p) == ~connected[p]

SendFrame ==
    /\ UNCHANGED <<validator, outpoints, messages, peers, connected, pc, cur,
                   result, nframes>>
    /\ UNCHANGED <<netVars, watcherVars, ledgerVars, histVars, lifeVars>>
    /\ UNCHANGED <<last, codec, wire, db, start, handler, addr, peerMap>>

\* requestData / sendDataMessage / SendMessage from p.mutex.Lock() to the
\* return of the first conn.Write: the error when the peer is not connected
\* or the Write fails; the return of requestData; else the task stands between
\* its two Write calls, holding p.mutex.
SendCall(t, kind, p, ok) ==
    /\ sender[t].step = "idle"
    /\ pc[p] # "none"
    /\ ~Locked(p)
    /\ LET wrote == ok /\ ~ConnBroken(p)
           call_ == [NoSend EXCEPT !.kind = kind, !.to = p, !.open = connected[p]]
       IN  IF Refuses(p)
           THEN /\ sender' = [sender EXCEPT ![t] =
                                [call_ EXCEPT !.step = "returned",
                                              !.err = "peer disconnected"]]
                /\ UNCHANGED <<conn, mutex>>
           ELSE /\ conn' = Write(p, Chunk(t, 1, Writes(kind)), ok)
                /\ sender' = [sender EXCEPT ![t] =
                                IF ~wrote
                                THEN [call_ EXCEPT !.step = "returned", !.err = "write"]
                                ELSE IF Writes(kind) = 1
                                THEN [call_ EXCEPT !.step = "returned", !.err = "nil"]
                                ELSE [call_ EXCEPT !.step = "tag"]]
                /\ mutex' = IF wrote /\ Writes(kind) = 2
                            THEN [mutex EXCEPT ![p] = t] ELSE mutex
    /\ SendFrame

\* sendDataMessage / SendMessage: the second conn.Write, the return of its
\* error, the deferred p.mutex.Unlock().
SendBody(t, ok) ==
    /\ sender[t].step = "tag"
    /\ LET p == sender[t].to
       IN  /\ conn' = Write(p, Chunk(t, 2, 2), ok)
           /\ sender' = [sender EXCEPT ![t].step = "returned",
                                       ![t].err = IF ok /\ ~ConnBroken(p)
                                                  THEN "nil" ELSE "write"]
           /\ mutex' = [mutex EXCEPT ![p] = IF @ = t THEN 0 ELSE @]
    /\ SendFrame

\* Peer.Disconnect on a connected peer (it returns at once on another):
\* under p.mutex, conn.Close(), connected = false, removePeerFromList.  Called
\* by Manager.Stop it waits there for Manager.peersMu, which Stop holds, and
\* keeps p.mutex (waits); called by the session it returns.
PeerDisconnect(p, waits) ==
    /\ pc[p] # "none"
    /\ connected[p]
    /\ ~Locked(p)
    /\ connected' = [connected EXCEPT ![p] = FALSE]
    /\ conn' = Write(p, Broken, FALSE)
    /\ mutex' = IF waits THEN [mutex EXCEPT ![p] = 0 - 1] ELSE mutex
    /\ peers' = IF waits THEN peers ELSE peers \ {p}
    /\ UNCHANGED sender
    /\ UNCHANGED <<validator, outpoints, messages, pc, cur, result, nframes>>
    /\ UNCHANGED <<netVars, watcherVars, ledgerVars, histVars, lifeVars>>
    /\ UNCHANGED <<last, codec, wire, db, start, handler, addr, peerMap>>

NextSend ==
    \/ \E p \in Peers : Connect(p)
    \/ \E t \in Senders, kind \in {"requestData", "sendDataMessage", "SendMessage"}, p \in Peers, ok \in BOOLEAN :
          SendCall(t, kind, p, ok)
    \/ \E t \in Senders, ok \in BOOLEAN : SendBody(t, ok)
    \/ \E p \in Peers, waits \in BOOLEAN : PeerDisconnect(p, waits)

\* Tasks that send to the peers of the node while peers are disconnected.
SpecSend == Init /\ [][NextSend]_vars

\* -------------------------------------------- Handler.Start and Stop
\* What the handler's own steps leave alone.
HandlerFrame ==
    /\ UNCHANGED <<sessVars, netVars, ledgerVars, histVars, lifeVars>>
    /\ UNCHANGED <<lastKnownHeight, wHeight, wTarget, notifications, wLast, processed>>
    /\ UNCHANGED <<last, codec, wire, db, start, addr, peerMap, mutex, sender, conn>>

\* Handler.Start: h.ctx, h.cancel = context.WithCancel(ctx); GetBlockchainInfo
\* (which does not look at its context); on an error Start returns it, else
\* `go h.processBlocks()` and nil.
HandlerStart(ok) ==
    /\ handler.start = "new"
    /\ handler' = [handler EXCEPT !.start = IF ok THEN "ok" ELSE "failed"]
    /\ wpc' = IF ok THEN "idle" ELSE wpc
    /\ HandlerFrame

\* processBlocks: the select takes `case <-h.ctx.Done(): return`, and the
\* deferred close(h.done) runs.  (When a tick is due as well the select takes
\* either case: the tick actions stay possible.)
WatcherExit ==
    /\ wpc = "idle"
    /\ HCtxDone
    /\ wpc' = "exited"
    /\ UNCHANGED handler
    /\ HandlerFrame

\* Handler.Stop up to its select: `if h.cancel != nil { h.cancel() }`.
HandlerStop ==
    /\ handler.stop = "none"
    /\ handler' = [handler EXCEPT !.stop = "wait",
                                  !.cancelled = (handler.start # "new")]
    /\ UNCHANGED wpc
    /\ HandlerFrame

\* Handler.Stop: `case <-h.done` once processBlocks has returned, or
\* `case <-time.After(5 * time.Second)`; `return nil`.
HandlerStopReturn(timeout) ==
    /\ handler.stop = "wait"
    /\ ~timeout => wpc = "exited"
    /\ handler' = [handler EXCEPT !.stop = "returned",
                                  !.how = IF timeout THEN "timeout" ELSE "graceful"]
    /\ UNCHANGED wpc
    /\ HandlerFrame

\* The node whose block handler is built and not yet started, the store
\* holding what earlier sessions admitted.
InitHandler ==
    /\ InitRest
    /\ outpoints \in SUBSET {o \in Outpoints : ledger[o] = "taproot"}
    /\ admitCount = [o \in Outpoints |-> IF o \in outpoints THEN 1 ELSE 0]
    /\ admittedBy = [o \in Outpoints |->
                       IF o \in outpoints THEN {[op |-> o, sig |-> "good"]} ELSE {}]
    /\ acceptPc = "accept"
    /\ start = Started
    /\ notifications \in BOOLEAN
    /\ wpc = "none"
    /\ handler = HandlerNew

\* The block handler from Start to Stop, the shutdown signal arriving at any
\* moment.
NextHandler ==
    \/ \E ok \in BOOLEAN : HandlerStart(ok)
    \/ \E spent \in SUBSET Outpoints : MineBlock(spent)
    \/ \E h \in 1..MaxHeight : WatcherTick(h)
    \/ \E h \in 0..MaxHeight : WatcherTickStale(h)
    \/ WatcherTickError
    \/ WatcherTickOff
    \/ \E ok \in BOOLEAN, seen \in SUBSET Outpoints : WatcherBlock(ok, seen)
    \/ WatcherExit
    \/ CtxCancel
    \/ HandlerStop
    \/ \E timeout \in BOOLEAN : HandlerStopReturn(timeout)

SpecHandler == InitHandler /\ [][NextHandler]_vars

\* ------------------------------------------ locks and the Bitcoin node
\* A session that keeps MemoryDB.mu from the replay check to the insert.
SessionHoldsStore(p) ==
    IF pc[p] \in {"val_own", "val_add"} THEN {<<"MemoryDB.mu", 0>>}
    ELSE IF pc[p] = "remove" THEN {<<"Peer.mutex", p>>} ELSE {}

\* The locks the task of connection p holds between its steps: Peer.mutex of
\* p while its Disconnect waits in removePeerFromList.  MemoryDB.mu and
\* Manager.peersMu are taken and released inside one call (HasOutpoint,
\* AddOutpoint, broadcastToOtherPeers, handleConnection).
SessionHolds(p) == IF pc[p] = "remove" THEN {<<"Peer.mutex", p>>} ELSE {}

\* The locks Manager.Stop holds between its steps.
StopHolds ==
    (IF PeersMuHeld THEN {<<"Manager.peersMu", 0>>} ELSE {})
        \cup (IF stopPc = "blocked" THEN {<<"Peer.mutex", stopPeer>>} ELSE {})

\* The locks processBlocks holds between its steps: Handler has no mutex, and
\* RemoveOutpoints releases MemoryDB.mu before it returns.
WatcherHolds == {}

\* The next step of p's session asks the Bitcoin node for an output:
\* extractPubKey (GetTxOut) when a data frame is read, VerifyUTXOOwnership
\* inside ValidateMessage.
AwaitsUtxo(p) == pc[p] \in {"read", "val_own"}

\* The next step of processBlocks asks the Bitcoin node: GetBlockchainInfo on a
\* tick, GetBlockHash and GetBlock in handleNewBlock.
AwaitsBlock == wpc \in {"idle", "scan"}

\* The tasks that ask the Bitcoin node (the validation of the sessions, the
\* watcher) beside the tasks that keep a lock from one step to the next
\* (Manager.Stop, Peer.Disconnect).
NextLocks ==
    \/ \E p \in Peers : Connect(p)
    \/ \E p \in Peers, m \in Messages, rpcOk \in BOOLEAN : ReadData(p, m, rpcOk)
    \/ \E p \in Peers : ValHas(p)
    \/ \E p \in Peers, rpcOk \in BOOLEAN : ValOwn(p, rpcOk)
    \/ \E p \in Peers : ValAdd(p)
    \/ \E p \in Peers : Disconnect(p)
    \/ \E p \in Peers : ReadClosed(p)
    \/ CtxCancel
    \/ StopBegin
    \/ StopLock
    \/ \E p \in Peers : StopDisconnect(p)
    \/ \E spent \in SUBSET Outpoints : MineBlock(spent)
    \/ \E h \in 1..MaxHeight : WatcherTick(h)
    \/ \E ok \in BOOLEAN, seen \in SUBSET Outpoints : WatcherBlock(ok, seen)

SpecLocks == Init /\ [][NextLocks]_vars

\* --------------------------------------------------------- Manager.Start
\* The node when utxoChatMain calls networkManager.Start: nothing listens yet,
\* the block handler is not started, Config.KnownPeers holds some addresses.
InitStart ==
    /\ InitNode
    /\ acceptPc = "none"
    /\ notifications = FALSE
    /\ wpc = "none"
    /\ handler = HandlerNew
    /\ \E k \in 0..MaxKnown :
           start = [pc |-> "listen", err |-> "nil", known |-> k, todo |-> k,
                    dialed |-> 0, failed |-> 0, late |-> 0]

\* A Start that gives up at the first peer it cannot dial.
OnDialErrorReturn == "return"

\* Manager.Start: `if err := m.connectToPeer(addr); err != nil { log.Printf(...) }`.
OnDialError == "log"

StartFrame ==
    /\ UNCHANGED <<validator, outpoints, messages, cur, result, nframes>>
    /\ UNCHANGED <<netVars, watcherVars, ledgerVars, histVars>>
    /\ UNCHANGED last
    /\ UNCHANGED <<ctxDone, quit, stopPc, stopTodo, stopPeer, disconnects>>
    /\ UNCHANGED <<codec, wire, db, handler, addr, peerMap, mutex, sender, conn>>

\* Manager.Start: net.Listen; on an error Start returns it, otherwise
\* `m.wg.Add(1); go m.acceptConnections(ctx)`.
StartListen(ok) ==
    /\ start.pc = "listen"
    /\ IF ok
       THEN /\ acceptPc' = "accept"
            /\ start' = [start EXCEPT !.pc = "dial"]
       ELSE /\ acceptPc' = acceptPc
            /\ start' = [start EXCEPT !.pc = "returned", !.err = "listen"]
    /\ UNCHANGED <<peers, connected, pc>>
    /\ StartFrame

\* Manager.Start, one turn of the loop over KnownPeers: connectToPeer(addr)
\* finds the address registered or cannot dial it, and returns an error that
\* Start logs.
StartDialFail ==
    /\ start.pc = "dial"
    /\ start.todo > 0
    /\ start' = IF OnDialError = "log"
                THEN [start EXCEPT !.todo = @ - 1, !.failed = @ + 1,
                                   !.late = IF start.failed > 0 THEN @ + 1 ELSE @]
                ELSE [start EXCEPT !.pc = "returned", !.err = "dial", !.failed = @ + 1]
    /\ UNCHANGED <<acceptPc, peers, connected, pc>>
    /\ StartFrame

\* Manager.Start, one turn of the loop over KnownPeers: connectToPeer(addr)
\* dials and starts `go m.handleConnection(conn)`, which registers the peer
\* and runs its session.
StartDial(p) ==
    /\ start.pc = "dial"
    /\ start.todo > 0
    /\ pc[p] = "none"
    /\ \A q \in Peers : q < p => pc[q] # "none"
    /\ ~PeersMuHeld
    /\ start' = [start EXCEPT !.todo = @ - 1, !.dialed = @ + 1,
                              !.late = IF start.failed > 0 THEN @ + 1 ELSE @]
    /\ peers' = peers \cup {p}
    /\ connected' = [connected EXCEPT ![p] = TRUE]
    /\ pc' = [pc EXCEPT ![p] = "read"]
    /\ UNCHANGED acceptPc
    /\ StartFrame

\* Manager.Start: `return nil` after the loop.
StartReturn ==
    /\ start.pc = "dial"
    /\ start.todo = 0
    /\ start' = [start EXCEPT !.pc = "returned"]
    /\ UNCHANGED <<acceptPc, peers, connected, pc>>
    /\ StartFrame

\* Manager.Start beside the accept loop and the sessions it starts.
NextStart ==
    \/ \E ok \in BOOLEAN : StartListen(ok)
    \/ StartDialFail
    \/ \E p \in Peers : StartDial(p)
    \/ StartReturn
    \/ \E p \in Peers : Connect(p)
    \/ \E p \in Peers : ReadFail(p)
    \/ \E p \in Peers : Disconnect(p)
    \/ \E p \in Peers : Cleanup(p)

SpecStart == InitStart /\ [][NextStart]_vars

\* ------------------------------------------------------- message codec
\* Contents are byte sequences; Bytes(n, seed) is one of n bytes.
Bytes(n, seed) == [i \in 1..n |-> (seed + i) % 256]

\* Go's uint16(x) and uint16 arithmetic: modulo 2^16.
Uint16(x) == x % 65536

\* binary.LittleEndian.PutUint16 and Uint16.
PutUint16(v) == <<v % 256, (v \div 256) % 256>>
GetUint16(b) == b[1] + 256 * b[2]

NilMessage == [Outpoint |-> << >>, Signature |-> << >>, Length |-> 0, Payload |-> << >>]

\* A constructor without the size check.
NewMessageUnchecked(outpoint, signature, payload) ==
    [msg |-> [Outpoint |-> outpoint, Signature |-> signature,
              Length |-> Uint16(Len(payload)), Payload |-> payload],
     err |-> "nil"]

\* NewMessage(outpoint, signature, payload).
NewMessage(outpoint, signature, payload) ==
    IF Len(payload) > MaxPayloadSize
    THEN [msg |-> NilMessage, err |-> "ErrMessageTooLarge"]
    ELSE [msg |-> [Outpoint |-> outpoint, Signature |-> signature,
                   Length |-> Uint16(Len(payload)), Payload |-> payload],
          err |-> "nil"]

\* Message.Serialize: a buffer of HeaderSize + len(Payload) bytes holding the
\* outpoint, the signature, the length (little endian) and the payload.
Serialize(m) == m.Outpoint \o m.Signature \o PutUint16(m.Length) \o m.Payload

\* Deserialize: the upper bound of `data[102:102+msg.Length]` is computed in
\* uint16 (msg.Length is a uint16, 102 an untyped constant) and wraps.
SliceEnd(length) == Uint16(HeaderSize + length)

\* Deserialize(data).  A slice expression whose upper bound is below its lower
\* bound or beyond the capacity panics.
Deserialize(data) ==
    IF Len(data) < HeaderSize
    THEN [msg |-> NilMessage, err |-> "ErrInvalidHeader"]
    ELSE LET length == GetUint16(SubSeq(data, 101, 102))
         IN  IF length > MaxPayloadSize
             THEN [msg |-> NilMessage, err |-> "ErrMessageTooLarge"]
             ELSE IF Len(data) < HeaderSize + length
             THEN [msg |-> NilMessage, err |-> "message data too short"]
             ELSE IF SliceEnd(length) < HeaderSize \/ SliceEnd(length) > Len(data)
             THEN [msg |-> NilMessage, err |-> "panic"]
             ELSE [msg |-> [Outpoint |-> SubSeq(data, 1, 36),
                            Signature |-> SubSeq(data, 37, 100),
                            Length |-> length,
                            Payload |-> SubSeq(data, HeaderSize + 1, SliceEnd(length))],
                   err |-> "nil"]

\* Payload lengths given to NewMessage, and lengths declared by the header of
\* a buffer given to Deserialize: the ends of the range and the byte carry.
PayloadLens  == {0, 1, 255, 256, MaxPayloadSize - 1, MaxPayloadSize, MaxPayloadSize + 1}
DeclaredLens == {0, 1, 256, MaxPayloadSize, MaxPayloadSize + 1, 65535}
Seeds        == 0..MaxSeed

\* What a state keeps of a result (message, error): the error, whether a
\* message was returned, and the Length field and payload size of the message.
Result(r) == [err |-> r.err, nil |-> r.msg = NilMessage,
              Length |-> r.msg.Length, len |-> Len(r.msg.Payload)]

\* The arguments a caller gives to NewMessage for a payload of n bytes.
Built(n, seed) == NewMessage(Bytes(OutpointSize, seed), Bytes(SignatureSize, seed + 1),
                             Bytes(n, seed + 2))

\* A caller builds a message: NewMessage.
CodecNew(n, seed) ==
    /\ codec.step = "idle"
    /\ codec' = [step |-> "new", n |-> n, seed |-> seed, new |-> Result(Built(n, seed))]
    /\ UNCHANGED <<nodeVars, wire, db>>

\* The caller encodes the message it built: Serialize.
CodecSerialize ==
    /\ codec.step = "new"
    /\ codec.new.err = "nil"
    /\ codec' = [step |-> "ser", n |-> codec.n, seed |-> codec.seed, new |-> codec.new,
                 size |-> Len(Serialize(Built(codec.n, codec.seed).msg))]
    /\ UNCHANGED <<nodeVars, wire, db>>

\* A receiver decodes the encoding: Deserialize.
CodecDeserialize ==
    /\ codec.step = "ser"
    /\ LET m == Built(codec.n, codec.seed).msg
           r == Deserialize(Serialize(m))
       IN  codec' = [step |-> "de", n |-> codec.n, seed |-> codec.seed,
                     new |-> codec.new, size |-> codec.size,
                     out |-> Result(r), same |-> (r.msg = m)]
    /\ UNCHANGED <<nodeVars, wire, db>>

\* A receiver decodes a buffer of `size` bytes whose header, when the buffer
\* has one, declares `declared` payload bytes: Deserialize.
CodecDecodeRaw(size, declared, seed) ==
    /\ codec.step = "idle"
    /\ LET whole == Bytes(OutpointSize, seed) \o Bytes(SignatureSize, seed + 1)
                      \o PutUint16(declared) \o Bytes(MaxPayloadSize, seed + 2)
           data  == SubSeq(whole, 1, size)
       IN  codec' = [step |-> "raw", size |-> size, declared |-> declared,
                     seed |-> seed, out |-> Result(Deserialize(data))]
    /\ UNCHANGED <<nodeVars, wire, db>>

NextCodec ==
    \/ \E n \in PayloadLens, seed \in Seeds : CodecNew(n, seed)
    \/ CodecSerialize
    \/ CodecDeserialize
    \/ \E declared \in DeclaredLens, seed \in Seeds :
          \E size \in {0, HeaderSize - 1, HeaderSize, HeaderSize + 1} \cup
                      {HeaderSize + d : d \in {x \in {declared - 1, declared} :
                                                 x >= 0 /\ x <= MaxPayloadSize}} :
             CodecDecodeRaw(size, declared, seed)

\* Uses of the message codec by a client that builds messages and by a
\* receiver that decodes buffers.
SpecCodec == Init /\ [][NextCodec]_vars


\* ------------------------------------------------------- wire protocol
MessageTypeInv     == 1
MessageTypeGetData == 2
MessageTypeData    == 3

\* binary.LittleEndian.PutUint32 of uint32(v).
PutUint32(v) == <<v % 256, (v \div 256) % 256, (v \div 65536) % 256,
                  (v \div 16777216) % 256>>

\* The n bytes of s that start at position from (positions from 1).
Take(s, from, n) == SubSeq(s, from, from + n - 1)

\* Peer.SendMessage(msgType, data): writes the type byte, then data.
SendMessage(msgType, data) == <<msgType>> \o data

\* An announcement whose data is the count and the outpoint only.
InvDataBare(outpoint) == PutUint16(1) \o outpoint

\* broadcastToOtherPeers, the data it hands to SendMessage: a 3-byte header
\* (type byte, count 1) and the outpoint.
InvData(outpoint) == <<MessageTypeInv>> \o PutUint16(1) \o outpoint

\* Peer.requestData: type byte, outpoint.
requestData(outpoint) == <<MessageTypeGetData>> \o outpoint

\* Peer.sendDataMessage(msgData): a 5-byte header (type byte, length of
\* msgData as uint32: no message is long enough to wrap it), then msgData.
sendDataMessage(msgData) ==
    <<MessageTypeData>> \o PutUint32(Len(msgData)) \o msgData

\* What a frame handler reports: how it ended ("ok": returned nil; "wait":
\* blocked in a read for bytes that have not come; "error": returned an error;
\* "panic"), the bytes it took from the connection, and what it read.
Handled(status, used, count, nread, first, msg) ==
    [status |-> status, used |-> used, count |-> count, nread |-> nread,
     first |-> first, msg |-> msg]

\* handleInvMessage on the bytes r that follow the type byte: a 2-byte count,
\* then that many outpoints of 36 bytes.
handleInvMessage(r) ==
    IF Len(r) < 2
    THEN Handled("wait", Len(r), 0, 0, << >>, NilMessage)
    ELSE LET count == GetUint16(Take(r, 1, 2))
             avail == (Len(r) - 2) \div OutpointSize
             first == IF count >= 1 /\ avail >= 1 THEN Take(r, 3, OutpointSize) ELSE << >>
         IN  IF avail >= count
             THEN Handled("ok", 2 + count * OutpointSize, count, count, first, NilMessage)
             ELSE Handled("wait", Len(r), count, avail, first, NilMessage)

\* handleGetDataMessage on the bytes r that follow the type byte: one outpoint.
handleGetDataMessage(r) ==
    IF Len(r) < OutpointSize
    THEN Handled("wait", Len(r), 0, 0, << >>, NilMessage)
    ELSE Handled("ok", OutpointSize, 1, 1, Take(r, 1, OutpointSize), NilMessage)

\* handleDataMessage on the bytes r that follow the type byte, up to
\* message.Deserialize: outpoint, signature, 2-byte length, payload.
handleDataMessage(r) ==
    IF Len(r) < HeaderSize
    THEN Handled("wait", Len(r), 0, 0, << >>, NilMessage)
    ELSE LET payloadLength == GetUint16(Take(r, OutpointSize + SignatureSize + 1, LengthSize))
         IN  IF payloadLength > MaxPayloadSize
             THEN Handled("error", HeaderSize, 0, 0, << >>, NilMessage)
             ELSE IF Len(r) < HeaderSize + payloadLength
             THEN Handled("wait", Len(r), 0, 0, << >>, NilMessage)
             ELSE LET d == Deserialize(Take(r, 1, HeaderSize + payloadLength))
                  IN  Handled(IF d.err = "nil" THEN "ok"
                              ELSE IF d.err = "panic" THEN "panic" ELSE "error",
                              HeaderSize + payloadLength, 1, 1,
                              Take(r, 1, OutpointSize), d.msg)

\* readMessages, one turn of its loop on the bytes a connection delivers: the
\* type byte, then the handler of that type.
readFrame(stream) ==
    IF stream = << >>
    THEN [type |-> 0] @@ Handled("wait", 0, 0, 0, << >>, NilMessage)
    ELSE LET r == Take(stream, 2, Len(stream) - 1)
             h == IF stream[1] = MessageTypeInv THEN handleInvMessage(r)
                  ELSE IF stream[1] = MessageTypeGetData THEN handleGetDataMessage(r)
                  ELSE IF stream[1] = MessageTypeData THEN handleDataMessage(r)
                  ELSE Handled("error", 0, 0, 0, << >>, NilMessage)
         IN  [type |-> stream[1]] @@ [h EXCEPT !.used = h.used + 1]

\* The frame that follows on the connection, if one does: nothing yet, a
\* getdata, or an inv of one outpoint as handleInvMessage reads it.
Following == {"none", "getdata", "inv"}

FollowingBytes(f, seed) ==
    IF f = "getdata" THEN requestData(Bytes(OutpointSize, seed + 3))
    ELSE IF f = "inv" THEN SendMessage(MessageTypeInv, InvDataBare(Bytes(OutpointSize, seed + 3)))
    ELSE << >>

\* Payload sizes of the cached messages a data frame carries.
CachedLens == {0, 1, 2, 255, 256, MaxPayloadSize - 1, MaxPayloadSize}

\* What a state keeps of a frame read: type, end, bytes taken, count,
\* outpoints read, and whether the first outpoint and the message read are
\* the ones sent.
Read(h, outpoint, m) ==
    [type |-> h.type, status |-> h.status, used |-> h.used, count |-> h.count,
     nread |-> h.nread, firstSame |-> (h.first = outpoint),
     msgSame |-> (h.msg = m), next |-> 0]

\* The bytes the node writes for the inv of a broadcast, and the frame that
\* follows it.
InvStream(seed, f) ==
    SendMessage(MessageTypeInv, InvData(Bytes(OutpointSize, seed)))
        \o FollowingBytes(f, seed)

\* The bytes the node writes for a data frame, and the frame that follows.
DataStream(n, seed, f) ==
    sendDataMessage(Serialize(Built(n, seed).msg)) \o FollowingBytes(f, seed)

\* broadcastToOtherPeers' goroutine: p.SendMessage(MessageTypeInv, data).
WireSendInv(seed, f) ==
    /\ wire.step = "idle"
    /\ wire' = [step |-> "sent", kind |-> "inv", n |-> 0, seed |-> seed, f |-> f,
                written |-> Len(InvStream(seed, "none"))]
    /\ UNCHANGED <<nodeVars, codec, db>>

\* handleGetDataMessage: p.sendDataMessage(msgData) for a cached message.
WireSendData(n, seed, f) ==
    /\ wire.step = "idle"
    /\ wire' = [step |-> "sent", kind |-> "data", n |-> n, seed |-> seed, f |-> f,
                written |-> Len(DataStream(n, seed, "none"))]
    /\ UNCHANGED <<nodeVars, codec, db>>

\* The receiving session reads one frame: readMessages.
WireRead ==
    /\ wire.step = "sent"
    /\ LET stream == IF wire.kind = "inv" THEN InvStream(wire.seed, wire.f)
                     ELSE DataStream(wire.n, wire.seed, wire.f)
           h      == readFrame(stream)
           rd     == Read(h, Bytes(OutpointSize, wire.seed), Built(wire.n, wire.seed).msg)
       IN  wire' = [step |-> "read", kind |-> wire.kind, n |-> wire.n,
                    seed |-> wire.seed, f |-> wire.f, written |-> wire.written,
                    out |-> [rd EXCEPT !.next = IF h.used < Len(stream)
                                                 THEN stream[h.used + 1] ELSE 0]]
    /\ UNCHANGED <<nodeVars, codec, db>>

NextWire ==
    \/ \E seed \in Seeds, f \in Following : WireSendInv(seed, f)
    \/ \E n \in CachedLens, seed \in Seeds, f \in Following : WireSendData(n, seed, f)
    \/ WireRead

\* The frames one peer writes and the session at the other end reads.
SpecWire == Init /\ [][NextWire]_vars


\* ------------------------------------------------------ outpoint keys
\* A transaction id is given by the 32 bytes of its display (big-endian) hex
\* string, as the Bitcoin node prints it in a block.  A chainhash.Hash holds
\* the bytes in the opposite (internal, little-endian) order.
HashSize == 32

Reverse(b) == [i \in 1..Len(b) |-> b[Len(b) + 1 - i]]

\* chainhash.NewHashFromStr: the hash whose String() is the given txid.
NewHashFromStr(txid) == Reverse(txid)

\* chainhash.NewHash: the hash whose bytes are the given bytes.
NewHash(b) == b

\* chainhash.Hash.String: the txid the Bitcoin node knows the hash by.
HashString(hash) == Reverse(hash)

\* binary.LittleEndian.Uint32.
Uint32(b) == b[1] + 256 * b[2] + 65536 * b[3] + 16777216 * b[4]

\* Handler.convertToOutpoint: the 36-byte key removed for an input (txid, vout)
\* of a block.
convertToOutpoint(txidStr, vout) ==
    NewHashFromStr(txidStr) \o
        <<vout % 256, (vout \div 256) % 256, (vout \div 65536) % 256,
          (vout \div 16777216) % 256>>

\* Outpoint.ToTxidIdx: NewHash of the reversed first 32 bytes, and the index.
ToTxidIdx(op) ==
    [hash |-> NewHash(Reverse(Take(op, 1, HashSize))),
     idx  |-> Uint32(Take(op, HashSize + 1, 4))]

\* Peer.extractPubKey: the hash and index it passes to GetTxOut: the hash of
\* ToTxidIdx, byte-reversed once more.
extractPubKey(outpoint) ==
    [hash |-> Reverse(ToTxidIdx(outpoint).hash),
     idx  |-> Uint32(Take(outpoint, HashSize + 1, 4))]

\* The (txid, vout) of the ledger a GetTxOut(hash, idx) call is about.
Asked(call_) == [txid |-> HashString(call_.hash), vout |-> call_.idx]

\* Transaction ids: bytes that read the same in both orders, or not.
Txid(seed, palindrome) ==
    [i \in 1..HashSize |->
        IF palindrome /\ i > HashSize \div 2 THEN (seed + HashSize + 1 - i) % 256
                                              ELSE (seed + i) % 256]

\* Output indexes, of one to four significant bytes.
Vouts == {0, 1, 258, 66051, 16909060}

\* The watcher meets the input (txid, vout) in a block and builds its key.
KeyConvert(txid, vout) ==
    /\ codec.step = "idle"
    /\ codec' = [step |-> "key", txid |-> txid, vout |-> vout,
                 key |-> convertToOutpoint(txid, vout)]
    /\ UNCHANGED <<nodeVars, wire, db>>

\* A session receives a message carrying that key as its outpoint: what
\* extractPubKey asks the Bitcoin node, and what ToTxidIdx gives the validator.
KeyLookup ==
    /\ codec.step = "key"
    /\ codec' = [codec EXCEPT !.step = "looked"] @@
                [session   |-> Asked(extractPubKey(codec.key)),
                 validator |-> Asked(ToTxidIdx(codec.key))]
    /\ UNCHANGED <<nodeVars, wire, db>>

NextKey ==
    \/ \E seed \in Seeds, palindrome \in BOOLEAN, vout \in Vouts :
          KeyConvert(Txid(seed, palindrome), vout)
    \/ KeyLookup

\* One ledger outpoint as the watcher and as a session see it.
SpecKey == Init /\ [][NextKey]_vars

\* ------------------------------------------------- MemoryDB, call by call
\* The lists a caller hands to RemoveOutpoints.
OutpointLists == UNION {[1..k -> Outpoints] : k \in 0..MaxList}

\* Every method of MemoryDB starts with `select { case <-ctx.Done(): return
\* ctx.Err() ... }` and then works under db.mu; one call is one step.
\* MemoryDB.HasOutpoint(ctx, outpoint).
MemHasOutpoint(store, o, done) ==
    IF done THEN [found |-> FALSE, err |-> "ctx", store |-> store]
    ELSE [found |-> o \in store, err |-> "nil", store |-> store]

\* MemoryDB.AddOutpoint(ctx, outpoint): `db.outpoints[outpoint] = struct{}{}`,
\* `return nil`.
MemAddOutpoint(store, o, done) ==
    IF done THEN [found |-> FALSE, err |-> "ctx", store |-> store]
    ELSE [found |-> FALSE, err |-> "nil", store |-> AddOutpoint(store, o)]

\* MemoryDB.RemoveOutpoints(ctx, outpoints): delete each, `return nil`.
MemRemoveOutpoints(store, list, done) ==
    IF done THEN [found |-> FALSE, err |-> "ctx", store |-> store]
    ELSE [found |-> FALSE, err |-> "nil", store |-> RemoveOutpoints(store, {list[i] : i \in DOMAIN list})]

\* The record of a call, and the two latest calls.
Called(op, arg, done, r) ==
    [op |-> op, arg |-> arg, done |-> done, err |-> r.err, found |-> r.found,
     before |-> outpoints, after |-> r.store]

Latest(calls) == IF Len(calls) > 2 THEN Tail(calls) ELSE calls

DbFrame ==
    /\ UNCHANGED <<validator, messages, peers, connected, pc, cur, result, nframes>>
    /\ UNCHANGED <<netVars, watcherVars, ledgerVars, histVars>>
    /\ UNCHANGED last
    /\ UNCHANGED lifeVars
    /\ UNCHANGED <<codec, wire, start, handler, addr, peerMap, mutex, sender, conn>>

\* A caller asks whether the store has o.
DbHas(o, done) ==
    /\ LET r == MemHasOutpoint(outpoints, o, done)
       IN  /\ outpoints' = r.store
           /\ db' = Latest(Append(db, Called("has", <<o>>, done, r)))
    /\ DbFrame

\* A caller adds o.
DbAdd(o, done) ==
    /\ LET r == MemAddOutpoint(outpoints, o, done)
       IN  /\ outpoints' = r.store
           /\ db' = Latest(Append(db, Called("add", <<o>>, done, r)))
    /\ DbFrame

\* A caller removes a list of outpoints.
DbRemove(list, done) ==
    /\ LET r == MemRemoveOutpoints(outpoints, list, done)
       IN  /\ outpoints' = r.store
           /\ db' = Latest(Append(db, Called("remove", list, done, r)))
    /\ DbFrame

NextStore ==
    \/ \E o \in Outpoints, done \in BOOLEAN : DbHas(o, done)
    \/ \E o \in Outpoints, done \in BOOLEAN : DbAdd(o, done)
    \/ \E list \in OutpointLists, done \in BOOLEAN : DbRemove(list, done)

\* The outpoint store under any sequence of calls, with a context that is
\* live or cancelled at each call.
SpecStore == Init /\ [][NextStore]_vars

\* ============================================================== claims

\* C1 (single admission under concurrency): of the ValidateMessage calls that
\* sessions run at the same time on messages carrying one outpoint that was
\* not in the store, exactly one returns success; so no two sessions stand
\* together behind a successful ValidateMessage for the same outpoint (the
\* outpoint never having been pruned).
C1_SingleAdmission ==
    \A p, q \in Peers :
        (p # q /\ result[p] = "ok" /\ result[q] = "ok"
              /\ cur[p].msg.op = cur[q].msg.op)
            => cur[p].msg.op \in everPruned

\* C2 (one message per UTXO): between two successful admissions of the same
\* outpoint there is always a removal of it by the watcher, i.e. an outpoint
\* is admitted at most once since it was last removed.
C2_OneMessagePerUtxo == \A o \in Outpoints : admitCount[o] <= 1

\* C3 (ownership gate): a ValidateMessage call whose outpoint is spent or
\* absent on the ledger for the whole call (so that the UTXO lookup reports
\* it so) does not return success and does not add the outpoint.
C3_OwnershipGate == \A p \in Peers : result[p] = "ok" => call[p].live

\* C4 (signature gate): an outpoint is in the store only if some message
\* carrying it, with a signature that verifies, was admitted.
C4_SignatureGate ==
    \A o \in outpoints : \E m \in admittedBy[o] : m.sig = "good"

\* C5 (admission ordering and frame): ValidateMessage adds the outpoint only
\* after its replay, ownership and signature checks have all passed, and a
\* call that returns a rejection leaves the store as it was.
C5_OrderingAndFrame ==
    [][\A p \in Peers :
          /\ (result[p] = "none" /\ result'[p] = "ok")
                => (call'[p].replay /\ call'[p].own /\ call'[p].sig)
          /\ (result[p] = "none" /\ result'[p] \notin {"none", "ok"})
                => outpoints' = outpoints]_vars

\* C6 (gossip no-echo): no inv that a broadcast for a message from sourcePeer
\* starts or writes goes to sourcePeer's own connection.
C6_NoEcho == \A t \in invTasks \cup invSent : t.to # t.src

\* C6 witness: an inv of a broadcast was written to another peer while the
\* source peer was still in the peer set.
C6_Witness == \E t \in invSent : t.src \in peers /\ connected[t.src]

\* C7 (relay only after admission): when a session hands a message to the
\* broadcast, the message passed ValidateMessage and its raw bytes are cached,
\* and every other peer of the peer set gets an inv for its outpoint.
C7_RelayAfterAdmission ==
    [][\A p \in Peers :
          (pc[p] = "broadcast" /\ pc'[p] = "read") =>
             /\ \A q \in peers \ {p} :
                   \E t \in invTasks' :
                       t.to = q /\ t.src = p /\ t.op = cur[p].msg.op
             /\ \A t \in invTasks' \ invTasks : t.admitted /\ t.cached]_vars

\* C8 (fan-out exactly once): while an outpoint stays in the store (it was
\* never pruned), no peer is sent an inv for it more than once.
C8_FanOutOnce ==
    \A q \in Peers, o \in Outpoints \ everPruned :
        Cardinality({t \in invSent : t.to = q /\ t.op = o}) <= 1

\* C9 (inv handling): each turn of the inv loop schedules one getdata for the
\* listed outpoint to the peer the inv came from when the store does not hold
\* the outpoint at that moment, and nothing when it does; when the list is
\* over (at once for count 0) the session returns to reading frames with no
\* request scheduled; and no other step schedules a getdata.
C9_InvHandling ==
    [][/\ \A p \in Peers :
             (pc[p] = "inv" /\ cur[p].list # << >> /\ cur'[p] # cur[p]) =>
                LET o == Head(cur[p].list)
                IN  getTasks' = IF o \in outpoints
                                THEN getTasks
                                ELSE getTasks (+) SetToBag({[to |-> p, op |-> o]})
       /\ \A p \in Peers :
             (pc[p] = "inv" /\ cur[p].list = << >> /\ pc'[p] # pc[p]) =>
                (pc'[p] = "read" /\ getTasks' = getTasks)
       /\ (\A p \in Peers : pc[p] = "inv" => cur'[p] = cur[p]) =>
             \A t \in BagToSet(getTasks') : CopiesIn(t, getTasks') <= CopiesIn(t, getTasks)
      ]_vars

\* C9 witness: a getdata stands scheduled for an outpoint the store does not
\* hold while the store holds another one.
C9_Witness ==
    \E t \in BagToSet(getTasks) : t.op \notin outpoints /\ outpoints # {}

\* C10 (getdata is served from the cache): a getdata for an outpoint that was
\* admitted (ValidateMessage succeeded and storeMessageInDB was called) and is
\* still held is answered with a data frame carrying the admitted message.
C10_GetDataServed ==
    [][\A p \in Peers :
          (/\ pc[p] = "getdata" /\ pc'[p] # "getdata"
           /\ connected[p]
           /\ cur[p].op \in outpoints
           /\ \A q \in Peers : pc[q] # "broadcast")
            => \E m \in admittedBy[cur[p].op] :
                  dataSent' = dataSent \cup {[to |-> p, body |-> m]}]_vars

\* C11 (getdata for a payload not held is ignored): a getdata for an outpoint
\* the node holds no cached payload for writes nothing to any peer, raises no
\* error, and leaves the session connected, registered and reading the next
\* frame.
C11_GetDataIgnored ==
    [][\A p \in Peers :
          (/\ pc[p] = "getdata" /\ pc'[p] # "getdata"
           /\ cur[p].op \notin DOMAIN messages)
            => /\ dataSent' = dataSent
               /\ invSent' = invSent
               /\ pc'[p] = "read"
               /\ connected'[p] = connected[p]
               /\ peers' = peers]_vars

\* C11 witness: a connected, registered session reads on after it ignored a
\* getdata for an outpoint the store holds.
C11_Witness ==
    \E p \in Peers : /\ last[p] = "ignored" /\ pc[p] = "read"
                     /\ connected[p] /\ p \in peers /\ outpoints # {}

\* C12 (admission rejections are not fatal to the session): when a correctly
\* framed data message is rejected (already seen, UTXO not found or spent,
\* unsupported script, bad signature) the session goes back to reading frames
\* and the peer stays connected and registered.
C12_RejectionNonFatal ==
    [][\A p \in Peers :
          /\ (pc[p] \in {"val_has", "val_own", "val_add"}
                  /\ result'[p] \notin {"none", "ok"}) => pc'[p] = "read"
          /\ (pc[p] = "read" /\ pc'[p] # "read" /\ last'[p] = "none")
                  => pc'[p] # "disconnect"]_vars

\* C13 (framing errors are fatal to the connection): a read error, an unknown
\* type or an oversized length ends the session: nothing is admitted from the
\* frame, the session goes to closing and never reads a frame again, and once
\* its Disconnect returned the socket is closed and the peer unregistered.
C13_FramingFatal ==
    [][\A p \in Peers :
          /\ (last'[p] = "frame_error" /\ last[p] # "frame_error")
                => (pc'[p] = "disconnect" /\ outpoints' = outpoints)
          /\ (pc[p] \in {"disconnect", "remove", "cleanup", "closed"})
                => pc'[p] \in {"disconnect", "remove", "cleanup", "closed"}
          /\ (pc'[p] \in {"cleanup", "closed"})
                => (~connected'[p] /\ p \notin peers')]_vars

\* C13 witness: a session that ended by a framing error has closed its socket
\* and is out of the peer set while another session is still connected.
C13_Witness ==
    \E p, q \in Peers : /\ last[p] = "frame_error" /\ pc[p] = "cleanup"
                        /\ ~connected[p] /\ p \notin peers
                        /\ connected[q] /\ q \in peers

\* C14 (idempotent disconnect): whoever calls Disconnect on a peer and however
\* often, the socket is closed and the disconnect signal raised at most once,
\* and every call returns: no Disconnect call, of Manager.Stop or of a session,
\* waits in removePeerFromList for Manager.peersMu while Manager.Stop, which
\* holds that lock, cannot release it.
C14_IdempotentDisconnect ==
    /\ \A p \in Peers : disconnects[p] <= 1
    /\ stopPc # "blocked"
    /\ \A p \in Peers : pc[p] # "remove"

\* C15 (stop terminates): Manager.Stop, with any number of connected peers,
\* is never left waiting for a lock that cannot be released: Manager.peersMu,
\* which it holds itself, or the Peer.mutex of a session that waits for
\* Manager.peersMu.
C15_StopTerminates ==
    ~ \/ (stopPc = "blocked" /\ stopPeer \in Peers)
      \/ (stopPc = "loop" /\ \E p \in stopTodo : pc[p] = "remove")

\* C16 (shutdown propagation): once the context given to Manager.Start is
\* cancelled, the accept loop accepts no further connection.
C16_ShutdownPropagation ==
    [][ctxDone => \A p \in Peers : pc[p] = "none" => pc'[p] = "none"]_vars

\* C17 (bounded handshake): a session processes a frame only for a peer that
\* completed the handshake, and while it waits for the bytes of a peer that
\* has not, the handshake deadline is armed on its reads.
C17_BoundedHandshake ==
    \A p \in Peers :
        /\ pc[p] \in {"inv", "getdata", "val_has", "val_own", "val_add", "broadcast"}
              => HandshakeDone(p)
        /\ (pc[p] = "read" /\ ~HandshakeDone(p)) => ReadDeadline(p) = "handshake"

\* C18 (codec round trip): for a message built by NewMessage with a payload of
\* 0 to 65,434 bytes, Deserialize(Serialize(m)) returns, without error or
\* panic, a message equal to m in outpoint, signature, length and payload.
C18_RoundTrip ==
    (codec.step = "de" /\ codec.n \in 0..MaxPayloadSize)
        => (codec.out.err = "nil" /\ codec.same)

\* C19 (decode error outcomes): Deserialize returns ErrInvalidHeader on fewer
\* than 102 bytes, ErrMessageTooLarge when the declared length exceeds 65,434
\* and when the buffer is shorter than 102 + declared length, and no message
\* with any error.
C19_DecodeErrors ==
    codec.step = "raw" =>
        /\ codec.size < HeaderSize => codec.out.err = "ErrInvalidHeader"
        /\ (codec.size >= HeaderSize /\ codec.declared > MaxPayloadSize)
              => codec.out.err = "ErrMessageTooLarge"
        /\ (codec.size >= HeaderSize /\ codec.declared <= MaxPayloadSize
              /\ codec.size < HeaderSize + codec.declared)
              => codec.out.err = "ErrMessageTooLarge"
        /\ codec.out.err # "nil" => codec.out.nil

\* C20 (message size invariant): NewMessage rejects a payload of 65,435 bytes
\* or more with ErrMessageTooLarge, and every message NewMessage or
\* Deserialize returns has Length = len(Payload) and an encoding of at most
\* 65,536 bytes.
C20_SizeInvariant ==
    /\ (codec.step = "new" /\ codec.n > MaxPayloadSize)
          => (codec.new.err = "ErrMessageTooLarge" /\ codec.new.nil)
    /\ (codec.step \in {"new", "ser", "de"} /\ codec.new.err = "nil")
          => /\ ~codec.new.nil
             /\ codec.new.Length = codec.new.len
             /\ HeaderSize + codec.new.len <= MaxMessageSize
    /\ (codec.step \in {"ser", "de"}) => codec.size <= MaxMessageSize
    /\ (codec.step \in {"de", "raw"} /\ codec.out.err = "nil")
          => /\ ~codec.out.nil
             /\ codec.out.Length = codec.out.len
             /\ HeaderSize + codec.out.len <= MaxMessageSize

\* C20 witness: a message with the largest payload was built and its encoding
\* has exactly 65,536 bytes.
C20_Witness ==
    /\ codec.step = "ser" /\ codec.n = MaxPayloadSize
    /\ codec.new.Length = MaxPayloadSize
    /\ codec.size = MaxMessageSize

\* C21 (broadcast emits a well-formed inv): the bytes a broadcast writes to a
\* peer are one inv frame (type 1, count 1, the 36 bytes of the outpoint): the
\* receiver's inv handler reads exactly one outpoint, equal to the one
\* announced, and the next byte it reads is the type byte of the next frame.
C21_InvWellFormed ==
    (wire.step = "read" /\ wire.kind = "inv")
        => /\ wire.out.type = MessageTypeInv
           /\ wire.out.status = "ok"
           /\ wire.out.count = 1 /\ wire.out.nread = 1
           /\ wire.out.firstSame
           /\ wire.out.used = wire.written
           /\ wire.f = "getdata" => wire.out.next = MessageTypeGetData
           /\ wire.f = "inv" => wire.out.next = MessageTypeInv

\* C22 (data framing agrees): every data frame sendDataMessage writes for a
\* cached message with a payload of 0 to 65,434 bytes is read by the receiving
\* session's data handler as that message, the bytes taken being exactly the
\* bytes of the frame.
C22_DataFraming ==
    (wire.step = "read" /\ wire.kind = "data" /\ wire.n \in 0..MaxPayloadSize)
        => /\ wire.out.type = MessageTypeData
           /\ wire.out.status = "ok"
           /\ wire.out.msgSame
           /\ wire.out.used = wire.written

\* C23 (watcher at-least-once): lastKnownHeight is advanced only after every
\* height of the range was processed successfully, so every height up to
\* lastKnownHeight is one for which handleNewBlock returned nil; a height
\* whose processing failed stays above lastKnownHeight and is not skipped.
C23_AtLeastOnce ==
    \A h \in 1..lastKnownHeight : h \in processed

\* C24 (height monotone, heights in order): lastKnownHeight never decreases,
\* whatever height a tick is told and also when the query fails; the heights a
\* tick hands to handleNewBlock are lastKnownHeight+1 .. currentHeight, in
\* increasing order, each once, and lastKnownHeight moves only at the end of
\* that range.
C24_MonotoneInOrder ==
    [][ /\ lastKnownHeight' >= lastKnownHeight
        /\ (wpc = "idle" /\ wpc' = "scan")
              => /\ wHeight' = lastKnownHeight + 1
                 /\ wTarget' >= wHeight'
                 /\ wTarget' <= Len(blocks)
                 /\ lastKnownHeight' = lastKnownHeight
        /\ (wpc = "scan" /\ (wpc' # wpc \/ wHeight' # wHeight))
              => /\ lastKnownHeight < wHeight /\ wHeight <= wTarget
                 /\ wTarget' = wTarget
                 /\ IF wHeight < wTarget
                    THEN /\ wHeight' = wHeight + 1
                         /\ wpc' = "scan"
                         /\ lastKnownHeight' = lastKnownHeight
                    ELSE /\ wpc' = "idle"
                         /\ lastKnownHeight' = wTarget
        /\ (wLast' # wLast /\ wLast' \in {"lower", "same", "error"})
              => /\ lastKnownHeight' = lastKnownHeight
                 /\ wpc' = "idle" /\ wpc = "idle"
      ]_vars

\* C24 witness: a tick was told a height below lastKnownHeight after the
\* watcher had gone through two heights or more, and lastKnownHeight stands.
C24_Witness ==
    /\ wLast = "lower"
    /\ wpc = "idle"
    /\ lastKnownHeight >= 2
    /\ lastKnownHeight = wTarget

\* C25 (pruning effect of a processed block): when handleNewBlock returns nil
\* for a block, every outpoint the block spends is absent from the store,
\* every entry the block does not spend is unchanged, and no entry is added.
C25_PruningEffect ==
    [][ (wpc = "scan" /\ processed' # processed)
            => /\ blocks[wHeight] \cap outpoints' = {}
               /\ outpoints' = outpoints \ blocks[wHeight]
      ]_vars

\* C26 (watcher progress in every configuration): with NotificationsEnabled
\* false or true, while the Bitcoin node answers, every height the chain
\* reaches is eventually processed: lastKnownHeight reaches it and the
\* outpoints its block spends are gone from the store.
C26_Progress ==
    \A h \in 1..MaxChain :
        (Len(blocks) >= h) ~>
            (Len(blocks) >= h /\ lastKnownHeight >= h /\ blocks[h] \cap outpoints = {})

\* C27 (pruning idempotence): two calls removeAll([o]) in a row each return no
\* error and leave has(o) false, the second changes nothing, and the
\* membership of every other outpoint is unchanged by both.
C27_PruneIdempotent ==
    (/\ Len(db) = 2
     /\ db[1].op = "remove" /\ db[2].op = "remove"
     /\ Len(db[1].arg) = 1 /\ db[2].arg = db[1].arg)
        => LET o == db[1].arg[1]
           IN  /\ db[1].err = "nil" /\ db[2].err = "nil"
               /\ o \notin db[1].after /\ o \notin db[2].after
               /\ db[2].after = db[2].before
               /\ db[1].after \ {o} = db[1].before \ {o}
               /\ db[2].after \ {o} = db[2].before \ {o}

\* C27 amended: the same for two calls removeAll([o]) in a row made with a
\* context that is not cancelled; a call made with a cancelled context
\* returns the context's error and removes nothing.
C27_PruneIdempotentLive ==
    /\ (/\ Len(db) = 2
        /\ db[1].op = "remove" /\ db[2].op = "remove"
        /\ Len(db[1].arg) = 1 /\ db[2].arg = db[1].arg
        /\ ~db[1].done /\ ~db[2].done)
           => LET o == db[1].arg[1]
              IN  /\ db[1].err = "nil" /\ db[2].err = "nil"
                  /\ o \notin db[1].after /\ o \notin db[2].after
                  /\ db[2].after = db[2].before
                  /\ db[1].after \ {o} = db[1].before \ {o}
                  /\ db[2].after \ {o} = db[2].before \ {o}
    /\ \A i \in DOMAIN db :
           (db[i].op = "remove" /\ db[i].done)
               => (db[i].err = "ctx" /\ db[i].after = db[i].before)

\* C27 witness: o was in the store with another outpoint, and was removed
\* twice in a row with a live context.
C27_Witness ==
    /\ Len(db) = 2
    /\ db[1].op = "remove" /\ db[2].op = "remove"
    /\ Len(db[1].arg) = 1 /\ db[2].arg = db[1].arg
    /\ ~db[1].done /\ ~db[2].done
    /\ db[1].arg[1] \in db[1].before
    /\ db[1].before # {db[1].arg[1]}
    /\ outpoints # {}

\* C28 (store add is an atomic test-and-set): add(outpoint) returns ok and
\* inserts when the outpoint is absent, and returns AlreadyPresentError and
\* leaves the store unchanged when it is present.
C28_AddTestAndSet ==
    \A i \in DOMAIN db :
        (db[i].op = "add" /\ ~db[i].done)
            => IF db[i].arg[1] \in db[i].before
               THEN db[i].err = "AlreadyPresentError" /\ db[i].after = db[i].before
               ELSE db[i].err = "nil" /\ db[i].after = db[i].before \cup {db[i].arg[1]}

\* C29 (start error policy): a failure to bind the listen address is what
\* Start returns, and then no accept loop and no peer task was started; a
\* failure to dial a known peer is never returned: Start returns success with
\* the accept loop running, every known peer having been dialed, those after a
\* failed one included.
C29_StartErrorPolicy ==
    /\ start.err \in {"nil", "listen"}
    /\ start.dialed + start.failed + start.todo = start.known
    /\ start.err = "listen"
          => /\ start.pc = "returned"
             /\ acceptPc = "none"
             /\ peers = {} /\ \A p \in Peers : pc[p] = "none"
             /\ start.dialed = 0 /\ start.failed = 0
    /\ start.pc = "dial" => acceptPc = "accept"
    /\ (start.pc = "returned" /\ start.err = "nil")
          => (start.todo = 0 /\ acceptPc = "accept")

\* C29 witness: Start returned success although a dial failed; a known peer
\* was dialed after the failure and its session runs beside the accept loop.
C29_Witness ==
    /\ start.pc = "returned" /\ start.err = "nil"
    /\ start.failed >= 1 /\ start.late >= 1 /\ start.dialed >= 1
    /\ acceptPc = "accept"
    /\ \E p \in Peers : pc[p] = "read" /\ p \in peers

C31_Independence ==
    [][\A q \in Peers :
          /\ pc[q] \in Validating => ENABLED ValidateStep(q)
          /\ (pc[q] \in Validating /\ pc'[q] # pc[q]) =>
                LET m     == cur[q].msg
                    entry == IF call'[q].replay THEN {} ELSE {m.op}
                    alone == ValidateMessage(validator, entry, m, call'[q].own)
                IN  /\ \A p \in Peers \ {q} :
                          /\ pc'[p] = pc[p] /\ cur'[p] = cur[p]
                          /\ result'[p] = result[p] /\ call'[p] = call[p]
                    /\ \A o \in Outpoints \ {m.op} :
                          (o \in outpoints') = (o \in outpoints)
                    /\ pc'[q] \in Validating => outpoints' = outpoints
                    /\ pc'[q] \notin Validating =>
                          /\ result'[q] = alone.err
                          /\ outpoints' = IF alone.err = "ok"
                                          THEN outpoints \cup {m.op}
                                          ELSE outpoints]_vars

\* C31 witness: two sessions stand behind successful validations of two
\* different outpoints that overlapped, and the store holds both outpoints.
C31_Witness ==
    \E p, q \in Peers :
        /\ p # q
        /\ pc[p] = "broadcast" /\ pc[q] = "broadcast"
        /\ cur[p].msg.op # cur[q].msg.op
        /\ {cur[p].msg.op, cur[q].msg.op} \subseteq outpoints

\* C32 (watcher shutdown): once h.ctx is done (the Start context cancelled,
\* or Handler.Stop called), the watcher loop starts no poll (no call of
\* GetBlockchainInfo, no loop over new heights) and nothing is removed from
\* the store; a loop that has exited stays exited; and a Handler.Stop that
\* waits can always return, gracefully only when the loop has exited, also
\* when Start never ran or failed.
C32_WatcherShutdown ==
    /\ [][/\ (HCtxDone /\ wpc = "idle") =>
                 (wpc' \in {"idle", "exited"} /\ wLast' \in {wLast, "off"})
          /\ HCtxDone => outpoints \subseteq outpoints'
          /\ wpc = "exited" => wpc' = "exited"]_vars
    /\ [](handler.stop = "wait" =>
             ENABLED (\E timeout \in BOOLEAN : HandlerStopReturn(timeout)))
    /\ [](handler.how = "graceful" => wpc = "exited")

\* C33 (no stale entry survives pruning): an outpoint spent in the block at
\* a height the watcher has passed (lastKnownHeight >= h) is not in the
\* store, unless a validation of a message carrying it is still in flight.
C33_NoStaleEntry ==
    \A h \in 1..lastKnownHeight : \A o \in blocks[h] :
        (\A p \in Peers : ~(pc[p] \in Validating /\ cur[p].msg.op = o))
            => o \notin outpoints

\* C34 (one outpoint, one key): for a ledger outpoint (txid, vout), the key
\* the watcher builds is the outpoint a session admits for that (txid, vout),
\* i.e. the session's extractPubKey asks the Bitcoin node about (txid, vout)
\* when it receives that key, and ToTxidIdx gives the validator the same
\* (txid, vout).
C34_OneKey ==
    codec.step = "looked" =>
        /\ codec.session = [txid |-> codec.txid, vout |-> codec.vout]
        /\ codec.validator = codec.session

\* C35 (peer registry consistency): every registered session that is still
\* handled (its task runs, its peer is connected) is the entry of its address
\* in Manager.peers, also when the address is used again; no step removes the
\* entry of a peer other than the one whose Disconnect or cleanup it is; and
\* a peer whose task has ended is not in the map.
C35_RegistryConsistent ==
    /\ [](\A p \in Peers :
             /\ (pc[p] \in {"read", "disconnect"} /\ connected[p])
                    => peerMap[addr[p]] = p
             /\ pc[p] = "closed" => peerMap[addr[p]] # p)
    /\ [][\A a \in Addrs :
             (peerMap[a] # 0 /\ peerMap'[a] = 0)
                 => pc'[peerMap[a]] # pc[peerMap[a]]]_vars

\* C36 (per-peer frame atomicity): on every connection the Write calls of one
\* frame stand next to each other: the second part of a two-part frame
\* follows the first part of the same sender at once, and after a first part
\* nothing comes but that sender's second part (or the failure of the
\* connection).
C36_FrameAtomic ==
    \A p \in Peers : \A i \in 1..Len(conn[p]) :
        LET c == conn[p][i]
        IN  /\ c.part = 2 => (i > 1 /\ conn[p][i - 1] = Chunk(c.by, 1, 2))
            /\ (c.part = 1 /\ c.of = 2 /\ i < Len(conn[p]))
                  => conn[p][i + 1] \in {Chunk(c.by, 2, 2), Broken}

\* C36 witness: a connection carries a complete two-part frame followed by
\* the first part of the frame of another sender, which is between its two
\* writes.
C36_Witness ==
    \E p \in Peers : \E i \in 2..Len(conn[p]) - 1 :
        /\ conn[p][i].part = 2
        /\ conn[p][i + 1].by \notin {0, conn[p][i].by}
        /\ sender[conn[p][i + 1].by].step = "tag"

\* C37 (closed is final): a peer that Disconnect has marked not connected
\* stays so, nothing more is written to its connection, and a send operation
\* that finds the peer not connected returns the error "peer disconnected".
C37_ClosedIsFinal ==
    /\ [][\A p \in Peers :
             (pc[p] # "none" /\ ~connected[p])
                 => (~connected'[p] /\ conn'[p] = conn[p])]_vars
    /\ [](\A t \in Senders :
             (sender[t].step # "idle" /\ ~sender[t].open)
                 => (sender[t].step = "returned"
                       /\ sender[t].err = "peer disconnected"))

\* C37 witness: a send called after the Disconnect of a peer that frames had
\* been written to has returned "peer disconnected".
C37_Witness ==
    \E t \in Senders :
        /\ sender[t].err = "peer disconnected"
        /\ ~connected[sender[t].to]
        /\ \E i \in 1..Len(conn[sender[t].to]) : conn[sender[t].to][i].by # 0

\* C38 (no 16-bit wrap in Deserialize): when Deserialize reaches its payload
\* slice (the buffer has a header, the declared Length is at most 65,434 and
\* the buffer holds 102 + Length bytes), the end offset 102 + Length computed
\* in uint16 is the sum 102 + Length, and lies between 102 and len(data).
C38_NoWrap ==
    (/\ codec.step = "raw"
     /\ codec.size >= HeaderSize
     /\ codec.declared <= MaxPayloadSize
     /\ codec.size >= HeaderSize + codec.declared)
        => /\ SliceEnd(codec.declared) = HeaderSize + codec.declared
           /\ HeaderSize <= SliceEnd(codec.declared)
           /\ SliceEnd(codec.declared) <= codec.size

====
